---- MODULE Spec2Model ----
(***************************************************************************)
(* PNAT: the declarative model of bridges / DHCP pools / port forwards,    *)
(* its persistence, and the two reconcilers (nftables, dnsmasq), as driven *)
(* by the web handlers and by the console (TUI) handlers.                  *)
(*                                                                         *)
(* Texts are modelled by what the parsers read from them:                  *)
(*   an address text is the tuple of its dot-separated numbers             *)
(*     "10.10.10.5" = <<10,10,10,5>>, "" = <<>>, an IPv6 literal is a      *)
(*     tuple of 8 groups;                                                  *)
(*   a CIDR text is [ip |-> address text, ones |-> prefix length];         *)
(*   a decimal text is the tuple of its digits, "22" = <<2,2>>, "" = <<>>. *)
(***************************************************************************)
EXTENDS Integers, Sequences, FiniteSets, TLC

(***************************************************************************)
(* Bounds of the model.                                                    *)
(***************************************************************************)
MaxBridges == 1
MaxForwards == 2
\* bridges the model holds when two requests run side by side
RaceBridges == 2

(***************************************************************************)
(* Generic helpers.                                                        *)
(***************************************************************************)
Range(s) == {s[i] : i \in 1..Len(s)}

RemoveAt(s, j) == [i \in 1..(Len(s) - 1) |-> IF i < j THEN s[i] ELSE s[i + 1]]

RECURSIVE Pow2(_)
Pow2(n) == IF n <= 0 THEN 1 ELSE 2 * Pow2(n - 1)

RECURSIVE Flatten(_)
Flatten(ss) == IF ss = <<>> THEN <<>> ELSE Head(ss) \o Flatten(Tail(ss))

(***************************************************************************)
(* Network validator (pure functions over IPv4 texts).                     *)
(***************************************************************************)
IsOctets4(t) == Len(t) = 4 /\ \A i \in 1..4 : t[i] \in 0..255

\* net.ParseIP(s) != nil : a dotted quad or an IPv6 literal
ParseIPOK(t) == IsOctets4(t) \/ Len(t) = 8

\* parseIPv4: net.ParseIP(s).To4() != nil
parseIPv4OK(t) == IsOctets4(t)

\* parseCIDRv4: net.ParseCIDR succeeds and the address is IPv4
parseCIDRv4OK(c) == IsOctets4(c.ip) /\ c.ones \in 0..32

\* net.ParseCIDR as validate() uses it: IPv4 or IPv6 prefix
ParseCIDROK(c) ==
    \/ IsOctets4(c.ip) /\ c.ones \in 0..32
    \/ Len(c.ip) = 8 /\ c.ones \in 0..128

\* number of mask bits falling in octet i (1..4) of a /ones mask
MaskBits(ones, i) ==
    LET r == ones - 8 * (i - 1) IN IF r <= 0 THEN 0 ELSE IF r >= 8 THEN 8 ELSE r

\* ip.Mask(mask)
MaskIP(ip, ones) ==
    [i \in 1..4 |-> LET d == Pow2(8 - MaskBits(ones, i)) IN (ip[i] \div d) * d]

\* ipInNet: ipnet.Contains(ip), both sides masked
ipInNet(ip, c) == MaskIP(ip, c.ones) = MaskIP(c.ip, c.ones)

\* ipToUint32 order: big-endian comparison of the four octets
RECURSIVE LexLE(_, _, _)
LexLE(a, b, i) ==
    IF i > 4 THEN TRUE
    ELSE IF a[i] < b[i] THEN TRUE
    ELSE IF a[i] > b[i] THEN FALSE
    ELSE LexLE(a, b, i + 1)

\* a faulty variant of ipLessOrEqual: the addresses compared as signed
\* 32-bit integers
ipLessOrEqualSigned(a, b) ==
    LexLE([a EXCEPT ![1] = IF @ >= 128 THEN @ - 256 ELSE @],
          [b EXCEPT ![1] = IF @ >= 128 THEN @ - 256 ELSE @], 1)

ipLessOrEqual(a, b) == LexLE(a, b, 1)

\* a faulty variant of validateDHCPRange: the gateway has to parse like the
\* start and the end
validateDHCPRangeGatewayParsed(subnet, gateway, start, end) ==
    IF ~parseCIDRv4OK(subnet) THEN "SubnetInvalid"
    ELSE IF ~parseIPv4OK(start) THEN "AddressInvalid"
    ELSE IF ~parseIPv4OK(end) THEN "AddressInvalid"
    ELSE IF ~ipInNet(start, subnet) \/ ~ipInNet(end, subnet) THEN "RangeOutsideSubnet"
    ELSE IF ~ipLessOrEqual(start, end) THEN "RangeInverted"
    ELSE IF ~parseIPv4OK(gateway) THEN "AddressInvalid"
    ELSE IF ipLessOrEqual(start, gateway) /\ ipLessOrEqual(gateway, end)
         THEN "RangeIncludesGateway"
    ELSE ""

\* validateDHCPRange: "" is success, otherwise the error text's kind
validateDHCPRange(subnet, gateway, start, end) ==
    IF ~parseCIDRv4OK(subnet) THEN "SubnetInvalid"
    ELSE IF ~parseIPv4OK(start) THEN "AddressInvalid"
    ELSE IF ~parseIPv4OK(end) THEN "AddressInvalid"
    ELSE IF ~ipInNet(start, subnet) \/ ~ipInNet(end, subnet) THEN "RangeOutsideSubnet"
    ELSE IF ~ipLessOrEqual(start, end) THEN "RangeInverted"
    ELSE IF parseIPv4OK(gateway) /\ ipLessOrEqual(start, gateway)
            /\ ipLessOrEqual(gateway, end) THEN "RangeIncludesGateway"
    ELSE ""

\* subnetFromCIDR: the network address with its prefix length
subnetFromCIDR(c) == [ip |-> MaskIP(c.ip, c.ones), ones |-> c.ones]

\* cidrFromSubnetAndGateway: error unless the gateway lies in the subnet
cidrFromSubnetAndGatewayOK(subnet, gateway) ==
    parseCIDRv4OK(subnet) /\ parseIPv4OK(gateway) /\ ipInNet(gateway, subnet)

(***************************************************************************)
(* Decimal texts.                                                          *)
(***************************************************************************)
RECURSIVE DigitsValue(_)
DigitsValue(d) ==
    IF d = <<>> THEN 0 ELSE 10 * DigitsValue(SubSeq(d, 1, Len(d) - 1)) + d[Len(d)]

\* strconv.ParseUint(s, 10, 16): fails on "" and on values over 65535
ParseUint16OK(d) == Len(d) > 0 /\ DigitsValue(d) <= 65535

\* strconv.Atoi with the error dropped, then uint16(n): "" gives 0
AtoiUint16(d) == IF Len(d) = 0 THEN 0 ELSE DigitsValue(d) % 65536

(***************************************************************************)
(* Declarative model (Config.Bridges is a sequence of BridgeConfig).       *)
(* A nil pointer is the empty sequence, a set pointer a one-element one.   *)
(***************************************************************************)
WanInterface == "vmbr0"

BridgeConfig(name, subnet, gateway, nat, dhcp) ==
    [Name |-> name, Subnet |-> subnet, GatewayIP |-> gateway,
     NATEnabled |-> nat, DHCP |-> dhcp, Forwards |-> <<>>]

DHCPConfig(start, end, lease, dns1, dns2) ==
    [RangeStart |-> start, RangeEnd |-> end, LeaseTime |-> lease,
     DNS1 |-> dns1, DNS2 |-> dns2]

PortForward(id, proto, ext, ip, port, comment) ==
    [ID |-> id, Protocol |-> proto, ExtPort |-> ext, IntIP |-> ip,
     IntPort |-> port, Comment |-> comment, Enabled |-> TRUE]

\* Config.FindBridge: index of the first bridge with that name, 0 for nil
FindBridge(bs, name) ==
    IF \E i \in 1..Len(bs) : bs[i].Name = name
    THEN CHOOSE i \in 1..Len(bs) :
            bs[i].Name = name /\ \A k \in 1..(i - 1) : bs[k].Name # name
    ELSE 0

\* all (bridge index, forward index) pairs holding that ID
ForwardPlaces(bs, id) ==
    {<<i, j>> \in (1..Len(bs)) \X (1..MaxForwards + 1) :
        j <= Len(bs[i].Forwards) /\ bs[i].Forwards[j].ID = id}

\* Config.FindForward: the first place in iteration order, <<0, 0>> for nil
FindForward(bs, id) ==
    LET ps == ForwardPlaces(bs, id) IN
    IF ps = {} THEN <<0, 0>>
    ELSE CHOOSE p \in ps :
            \A q \in ps : p[1] < q[1] \/ (p[1] = q[1] /\ p[2] <= q[2])

\* Config.DeleteForward: [found, Bridges]
DeleteForward(bs, id) ==
    LET p == FindForward(bs, id) IN
    IF p[1] = 0 THEN [found |-> FALSE, Bridges |-> bs]
    ELSE [found |-> TRUE,
          Bridges |-> [bs EXCEPT ![p[1]].Forwards = RemoveAt(@, p[2])]]

\* Config.DeleteBridge: [found, Bridges]
DeleteBridge(bs, name) ==
    LET i == FindBridge(bs, name) IN
    IF i = 0 THEN [found |-> FALSE, Bridges |-> bs]
    ELSE [found |-> TRUE, Bridges |-> RemoveAt(bs, i)]

\* Config.validate, the part over Bridges
validate(bs) ==
    \A i \in 1..Len(bs) :
        /\ bs[i].Name # ""
        /\ ParseCIDROK(bs[i].Subnet)
        /\ ParseIPOK(bs[i].GatewayIP)
        /\ \A j \in 1..Len(bs[i].Forwards) :
              LET f == bs[i].Forwards[j] IN
              f.ExtPort # 0 /\ f.IntPort # 0 /\ ParseIPOK(f.IntIP)

(***************************************************************************)
(* Files.  A file is absent, holds a complete content, or holds the        *)
(* truncated result of a write that failed part way.                       *)
(***************************************************************************)
FileAbsent(empty) == [exists |-> FALSE, complete |-> FALSE, data |-> empty]
FilePartial(empty) == [exists |-> TRUE, complete |-> FALSE, data |-> empty]
FileOf(content) == [exists |-> TRUE, complete |-> TRUE, data |-> content]

\* json.MarshalIndent of the bridges array (field names are the json tags)
MarshalForward(f) ==
    [id |-> f.ID, protocol |-> f.Protocol, ext_port |-> f.ExtPort,
     int_ip |-> f.IntIP, int_port |-> f.IntPort, comment |-> f.Comment,
     enabled |-> f.Enabled]

MarshalBridge(b) ==
    [name |-> b.Name, subnet |-> b.Subnet, gateway_ip |-> b.GatewayIP,
     nat_enabled |-> b.NATEnabled,
     dhcp |-> [k \in 1..Len(b.DHCP) |->
                 [range_start |-> b.DHCP[k].RangeStart, range_end |-> b.DHCP[k].RangeEnd,
                  lease_time |-> b.DHCP[k].LeaseTime, dns1 |-> b.DHCP[k].DNS1,
                  dns2 |-> b.DHCP[k].DNS2]],
     forwards |-> [j \in 1..Len(b.Forwards) |-> MarshalForward(b.Forwards[j])]]

Marshal(bs) == [i \in 1..Len(bs) |-> MarshalBridge(bs[i])]

\* json.Unmarshal of the bridges array
UnmarshalBridge(o) ==
    [Name |-> o.name, Subnet |-> o.subnet, GatewayIP |-> o.gateway_ip,
     NATEnabled |-> o.nat_enabled,
     DHCP |-> [k \in 1..Len(o.dhcp) |->
                 DHCPConfig(o.dhcp[k].range_start, o.dhcp[k].range_end,
                            o.dhcp[k].lease_time, o.dhcp[k].dns1, o.dhcp[k].dns2)],
     Forwards |-> [j \in 1..Len(o.forwards) |->
                 [ID |-> o.forwards[j].id, Protocol |-> o.forwards[j].protocol,
                  ExtPort |-> o.forwards[j].ext_port, IntIP |-> o.forwards[j].int_ip,
                  IntPort |-> o.forwards[j].int_port, Comment |-> o.forwards[j].comment,
                  Enabled |-> o.forwards[j].enabled]]]

Unmarshal(js) == [i \in 1..Len(js) |-> UnmarshalBridge(js[i])]

\* LoadConfig: [ok, Bridges]; a missing, truncated or invalid file is an error
LoadConfig(file) ==
    IF file.exists /\ file.complete /\ validate(Unmarshal(file.data))
    THEN [ok |-> TRUE, Bridges |-> Unmarshal(file.data)]
    ELSE [ok |-> FALSE, Bridges |-> <<>>]

(***************************************************************************)
(* NAT compiler and the firewall tool.                                     *)
(***************************************************************************)
EmptyRules == [flush |-> FALSE, prerouting |-> <<>>, postrouting |-> <<>>]

\* a faulty variant of Protocols: "tcp+udp" is written out as it stands
ProtocolsAsStored(f) == <<f.Protocol>>

\* the protocols one forward expands to
Protocols(f) == IF f.Protocol = "tcp+udp" THEN <<"tcp", "udp">> ELSE <<f.Protocol>>

\* the DNAT lines of one forward
ForwardRules(f) ==
    IF ~f.Enabled THEN <<>>
    ELSE [k \in 1..Len(Protocols(f)) |->
            [iifname |-> WanInterface, proto |-> Protocols(f)[k], dport |-> f.ExtPort,
             to_ip |-> f.IntIP, to_port |-> f.IntPort, comment |-> f.Comment]]

BridgeForwardRules(b) ==
    Flatten([j \in 1..Len(b.Forwards) |-> ForwardRules(b.Forwards[j])])

\* a faulty variant of MasqRules: NATEnabled is not looked at
MasqRulesEveryBridge(b) == <<[oifname |-> WanInterface, saddr |-> b.Subnet]>>

MasqRules(b) ==
    IF b.NATEnabled THEN <<[oifname |-> WanInterface, saddr |-> b.Subnet]>> ELSE <<>>

\* a faulty variant of generateRuleset: the "flush table" line is left out
generateRulesetNoFlush(bs) ==
    [flush |-> FALSE,
     prerouting |-> Flatten([i \in 1..Len(bs) |-> BridgeForwardRules(bs[i])]),
     postrouting |-> Flatten([i \in 1..Len(bs) |-> MasqRules(bs[i])])]

\* NFTManager.generateRuleset: "add table; flush table; table { chains }"
generateRuleset(bs) ==
    [flush |-> TRUE,
     prerouting |-> Flatten([i \in 1..Len(bs) |-> BridgeForwardRules(bs[i])]),
     postrouting |-> Flatten([i \in 1..Len(bs) |-> MasqRules(bs[i])])]

\* NFTManager.Apply, lines 62-75
hasNAT(bs) == \E i \in 1..Len(bs) : bs[i].NATEnabled

\* a faulty variant of hasRules: a forward counts whether enabled or not
hasRulesAnyForward(bs) ==
    \/ hasNAT(bs)
    \/ \E i \in 1..Len(bs) : Len(bs[i].Forwards) > 0

hasRules(bs) ==
    \/ hasNAT(bs)
    \/ \E i \in 1..Len(bs) : \E j \in 1..Len(bs[i].Forwards) : bs[i].Forwards[j].Enabled

\* the table a ruleset file leaves when all of it is carried out
Loaded(tbl, rules) ==
    LET old == IF tbl = <<>> \/ rules.flush
               THEN [prerouting |-> <<>>, postrouting |-> <<>>]
               ELSE tbl[1]
    IN <<[prerouting |-> old.prerouting \o rules.prerouting,
          postrouting |-> old.postrouting \o rules.postrouting]>>

\* a faulty variant of NftExec: the table is created and flushed by a command
\* of its own before the file is loaded, so a failed load leaves it empty
NftExecFlushFirst(tbl, rules, ok) ==
    IF ok THEN Loaded(tbl, rules)
    ELSE <<[prerouting |-> <<>>, postrouting |-> <<>>]>>

\* the live table: <<>> when absent, <<[prerouting, postrouting]>> when loaded.
\* "nft -f rules.nft" (ok: exit status 0): the table is created when absent,
\* emptied when the file says flush, and the file's rules are appended to
\* each chain, all in one transaction; a failed load changes nothing.
NftExec(tbl, rules, ok) ==
    IF ok THEN Loaded(tbl, rules) ELSE tbl

\* the table that states a model exactly
TableOf(bs) ==
    IF hasRules(bs)
    THEN <<[prerouting |-> generateRuleset(bs).prerouting,
            postrouting |-> generateRuleset(bs).postrouting]>>
    ELSE <<>>

(***************************************************************************)
(* DHCP compiler.                                                          *)
(***************************************************************************)
hasDHCP(bs) == \E i \in 1..Len(bs) : bs[i].DHCP # <<>>

\* the option-6 value: DNS1, then "," and DNS2 when DNS2 is set; no option
\* line when the joined text is empty
DNSOption(d) ==
    IF d.DNS2 # <<>> THEN <<d.DNS1, d.DNS2>>
    ELSE IF d.DNS1 # <<>> THEN <<d.DNS1>>
    ELSE <<>>

\* a faulty variant of Stanza: a bridge without a pool gets a stanza too,
\* with an empty range
StanzaEveryBridge(b) ==
    LET d == IF b.DHCP = <<>> THEN DHCPConfig(<<>>, <<>>, "", <<>>, <<>>) ELSE b.DHCP[1] IN
    <<[interface |-> b.Name,
       range_start |-> d.RangeStart, range_end |-> d.RangeEnd,
       lease |-> IF d.LeaseTime = "" THEN "12h" ELSE d.LeaseTime,
       gateway |-> b.GatewayIP,
       dns |-> DNSOption(d)]>>

\* one stanza of DNSMasqManager.generateConfig
Stanza(b) ==
    IF b.DHCP = <<>> THEN <<>>
    ELSE LET d == b.DHCP[1] IN
         <<[interface |-> b.Name,
            range_start |-> d.RangeStart, range_end |-> d.RangeEnd,
            lease |-> IF d.LeaseTime = "" THEN "12h" ELSE d.LeaseTime,
            gateway |-> b.GatewayIP,
            dns |-> DNSOption(d)]>>

\* DNSMasqManager.generateConfig
generateConfig(bs) == Flatten([i \in 1..Len(bs) |-> Stanza(bs[i])])

(***************************************************************************)
(* Web handlers as functions of the model and the request: the error text  *)
(* ("" when the request is accepted) and the bridges after the handler's   *)
(* in-memory change.                                                       *)
(***************************************************************************)
Accept(bs) == [err |-> "", Bridges |-> bs]
Reject(e, bs) == [err |-> e, Bridges |-> bs]

\* ifaceNameRe over the names a request can carry
IfaceNameOK(name) == name \in {"vmbr1", "vmbr2", "vmbr9"}

\* HandleForwardCreate, lines 991-1001
PortConflict(bs, extPort, protocol) ==
    \E i \in 1..Len(bs) : \E j \in 1..Len(bs[i].Forwards) :
        LET f == bs[i].Forwards[j] IN
        /\ f.ExtPort = extPort
        /\ f.Enabled
        /\ (f.Protocol = protocol \/ f.Protocol = "tcp+udp" \/ protocol = "tcp+udp")

\* HandleForwardCreate, the checks made before the lock is taken
ForwardCreateParse(protocol, extPortStr, intIP, intPortStr) ==
    IF ~ParseUint16OK(extPortStr) \/ DigitsValue(extPortStr) = 0 THEN "Invalid external port"
    ELSE IF ~ParseUint16OK(intPortStr) \/ DigitsValue(intPortStr) = 0 THEN "Invalid internal port"
    ELSE IF ~ParseIPOK(intIP) THEN "Invalid internal IP"
    ELSE IF protocol \notin {"tcp", "udp", "tcp+udp"} THEN "Invalid protocol"
    ELSE IF ~parseIPv4OK(intIP) THEN "Invalid internal IP (IPv4 required)"
    ELSE ""

\* HandleForwardCreate, under the lock
HandleForwardCreate(bs, id, bridgeName, protocol, extPortStr, intIP, intPortStr, comment) ==
    LET i == FindBridge(bs, bridgeName)
        extPort == DigitsValue(extPortStr)
    IN
    IF i = 0 THEN Reject("Bridge not found", bs)
    ELSE IF ~parseCIDRv4OK(bs[i].Subnet) THEN Reject("Bridge subnet invalid", bs)
    ELSE IF ~ipInNet(intIP, bs[i].Subnet) THEN Reject("Internal IP not in bridge subnet", bs)
    ELSE IF PortConflict(bs, extPort, protocol) THEN Reject("External port already in use", bs)
    ELSE Accept([bs EXCEPT ![i].Forwards =
                    Append(@, PortForward(id, protocol, extPort, intIP,
                                          DigitsValue(intPortStr), comment))])

HandleNATToggle(bs, bridgeName) ==
    LET i == FindBridge(bs, bridgeName) IN
    IF i = 0 THEN Reject("Bridge not found", bs)
    ELSE Accept([bs EXCEPT ![i].NATEnabled = ~@])

HandleForwardDelete(bs, id) ==
    LET r == DeleteForward(bs, id) IN
    IF ~r.found THEN Reject("Forward not found", bs) ELSE Accept(r.Bridges)

HandleForwardToggle(bs, id) ==
    LET p == FindForward(bs, id) IN
    IF p[1] = 0 THEN Reject("Forward not found", bs)
    ELSE Accept([bs EXCEPT ![p[1]].Forwards[p[2]].Enabled = ~@])

\* the DHCP part of a bridge form: range, then DNS1, then DNS2
DHCPFormCheck(subnet, gateway, rangeStart, rangeEnd, dns1, dns2) ==
    IF validateDHCPRange(subnet, gateway, rangeStart, rangeEnd) # ""
    THEN validateDHCPRange(subnet, gateway, rangeStart, rangeEnd)
    ELSE IF dns1 # <<>> /\ ~parseIPv4OK(dns1) THEN "Invalid DNS1 IP"
    ELSE IF dns2 # <<>> /\ ~parseIPv4OK(dns2) THEN "Invalid DNS2 IP"
    ELSE ""

LeaseDefault(leaseTime) == IF leaseTime = "" THEN "12h" ELSE leaseTime

\* a faulty variant of HandleDHCPSave: the pool is stored before it is checked
HandleDHCPSaveEager(bs, bridgeName, enabled, rangeStart, rangeEnd, leaseTime, dns1, dns2) ==
    LET i == FindBridge(bs, bridgeName) IN
    IF i = 0 THEN Reject("Bridge not found", bs)
    ELSE IF ~enabled THEN Accept([bs EXCEPT ![i].DHCP = <<>>])
    ELSE LET stored == [bs EXCEPT ![i].DHCP =
                          <<DHCPConfig(rangeStart, rangeEnd, LeaseDefault(leaseTime), dns1, dns2)>>]
             e == DHCPFormCheck(bs[i].Subnet, bs[i].GatewayIP, rangeStart, rangeEnd, dns1, dns2)
         IN IF e # "" THEN Reject(e, stored) ELSE Accept(stored)

HandleDHCPSave(bs, bridgeName, enabled, rangeStart, rangeEnd, leaseTime, dns1, dns2) ==
    LET i == FindBridge(bs, bridgeName) IN
    IF i = 0 THEN Reject("Bridge not found", bs)
    ELSE IF ~enabled THEN Accept([bs EXCEPT ![i].DHCP = <<>>])
    ELSE IF DHCPFormCheck(bs[i].Subnet, bs[i].GatewayIP, rangeStart, rangeEnd, dns1, dns2) # ""
    THEN Reject(DHCPFormCheck(bs[i].Subnet, bs[i].GatewayIP, rangeStart, rangeEnd, dns1, dns2), bs)
    ELSE Accept([bs EXCEPT ![i].DHCP =
                    <<DHCPConfig(rangeStart, rangeEnd, LeaseDefault(leaseTime), dns1, dns2)>>])

\* the pool a bridge form asks for: nil unless dhcp_enabled
FormPool(dhcpEnabled, rangeStart, rangeEnd, leaseTime, dns1, dns2) ==
    IF dhcpEnabled
    THEN <<DHCPConfig(rangeStart, rangeEnd, LeaseDefault(leaseTime), dns1, dns2)>>
    ELSE <<>>

\* HandleBridgeCreate, the checks on the form (lines 1161-1206)
BridgeCreateParse(name, subnet, gateway, dhcpEnabled, rangeStart, rangeEnd, dns1, dns2) ==
    IF name = "" THEN "Bridge name is required"
    ELSE IF ~IfaceNameOK(name) THEN "Invalid bridge name"
    ELSE IF subnet.ip = <<>> \/ gateway = <<>> THEN "Subnet and gateway IP are required"
    ELSE IF ~cidrFromSubnetAndGatewayOK(subnet, gateway) THEN "Invalid subnet/gateway"
    ELSE IF ~dhcpEnabled THEN ""
    ELSE IF rangeStart = <<>> \/ rangeEnd = <<>> THEN "DHCP range start/end are required"
    ELSE DHCPFormCheck(subnetFromCIDR(subnet), gateway, rangeStart, rangeEnd, dns1, dns2)

\* HandleBridgeCreate, lines 1243-1258: the append, made without a second
\* look at the names already managed
HandleBridgeCreate(bs, br) == Accept(Append(bs, br))

\* HandleBridgeAttach, the checks on the form and on the inventory entry
\* (cidr is <<>> when the inventory has no such bridge or no address for it)
BridgeAttachParse(name, cidr, dhcpEnabled, rangeStart, rangeEnd, dns1, dns2) ==
    IF name = "" THEN "Bridge name is required"
    ELSE IF ~IfaceNameOK(name) THEN "Invalid bridge name"
    ELSE IF cidr = <<>> THEN "Bridge has no IP/CIDR configured in Proxmox"
    ELSE IF ~ParseCIDROK(cidr[1]) THEN "Invalid bridge CIDR"
    ELSE IF ~IsOctets4(cidr[1].ip) THEN "IPv4 CIDR required for bridge"
    ELSE IF ~dhcpEnabled THEN ""
    ELSE IF rangeStart = <<>> \/ rangeEnd = <<>> THEN "DHCP range start/end are required"
    ELSE DHCPFormCheck(subnetFromCIDR(cidr[1]), cidr[1].ip, rangeStart, rangeEnd, dns1, dns2)

\* HandleBridgeAttach, under the lock
HandleBridgeAttach(bs, br) ==
    IF FindBridge(bs, br.Name) # 0 THEN Reject("Bridge already managed by PNAT", bs)
    ELSE Accept(Append(bs, br))

HandleBridgeDetach(bs, name) ==
    LET r == DeleteBridge(bs, name) IN
    IF ~r.found THEN Reject("Bridge not managed by PNAT", bs) ELSE Accept(r.Bridges)

(***************************************************************************)
(* Console (TUI) handlers: the in-memory change made between Lock and      *)
(* Unlock, before apply() is called.                                       *)
(***************************************************************************)
TuiToggleNAT(bs, name) ==
    LET i == FindBridge(bs, name) IN
    IF i = 0 THEN bs ELSE [bs EXCEPT ![i].NATEnabled = ~@]

TuiAddForward(bs, id, selBridge, proto, extPort, intIP, intPort, comment) ==
    LET i == FindBridge(bs, selBridge) IN
    IF i = 0 THEN bs
    ELSE [bs EXCEPT ![i].Forwards =
            Append(@, PortForward(id, proto, AtoiUint16(extPort), intIP,
                                  AtoiUint16(intPort), comment))]

TuiToggleForward(bs, id) ==
    LET p == FindForward(bs, id) IN
    IF p[1] = 0 THEN bs ELSE [bs EXCEPT ![p[1]].Forwards[p[2]].Enabled = ~@]

TuiDeleteForward(bs, id) == DeleteForward(bs, id).Bridges

TuiDHCPSave(bs, name, enabled, rangeStart, rangeEnd, leaseTime, dns1, dns2) ==
    LET i == FindBridge(bs, name) IN
    IF i = 0 THEN bs
    ELSE IF ~enabled THEN [bs EXCEPT ![i].DHCP = <<>>]
    ELSE [bs EXCEPT ![i].DHCP = <<DHCPConfig(rangeStart, rangeEnd, leaseTime, dns1, dns2)>>]

(***************************************************************************)
(* The requests the model draws from.                                      *)
(***************************************************************************)
\* request goroutines: one at a time in Spec, two side by side in SpecRace
Workers == {"w1"}
RaceWorkers == {"w1", "w2"}
Procs == RaceWorkers \cup {"tui"}

BridgeNames == {"vmbr1", "vmbr2"}
ReqNames == BridgeNames \cup {"", "br-1"}
ForwardIDs == 1..MaxForwards

Net10 == [ip |-> <<10, 10, 10, 0>>, ones |-> 24]
Net20 == [ip |-> <<10, 10, 20, 0>>, ones |-> 24]

\* POST /forwards/create: the forms a browser sends
ForwardForm(bridge, protocol, extPort, intIP, intPort) ==
    [bridge |-> bridge, protocol |-> protocol, ext_port |-> extPort,
     int_ip |-> intIP, int_port |-> intPort]

ForwardForms ==
    {ForwardForm("vmbr1", pr, <<2, 2>>, <<10, 10, 10, 5>>, <<2, 2>>) :
        pr \in {"tcp", "udp", "tcp+udp", "icmp"}}
    \cup {ForwardForm("vmbr2", "tcp", <<2, 2>>, <<10, 10, 20, 5>>, <<8, 0>>),
          ForwardForm("vmbr1", "tcp", <<2, 2>>, <<10, 10, 20, 5>>, <<2, 2>>),
          ForwardForm("vmbr1", "tcp", <<2, 2>>, <<>>, <<2, 2>>),
          ForwardForm("vmbr1", "tcp", <<>>, <<10, 10, 10, 5>>, <<2, 2>>),
          ForwardForm("vmbr1", "tcp", <<2, 2>>, <<10, 10, 10, 5>>, <<0>>),
          ForwardForm("br-1", "tcp", <<2, 2>>, <<10, 10, 10, 5>>, <<2, 2>>)}

\* the DHCP fields of a form
PoolForm(enabled, rangeStart, rangeEnd, dns1) ==
    [dhcp_enabled |-> enabled, range_start |-> rangeStart, range_end |-> rangeEnd,
     dns1 |-> dns1]

NoPoolForm == PoolForm(FALSE, <<>>, <<>>, <<>>)
GoodPoolForm == PoolForm(TRUE, <<10, 10, 10, 100>>, <<10, 10, 10, 200>>, <<1, 1, 1, 1>>)
BadPoolForms ==
    {PoolForm(TRUE, <<10, 10, 10, 1>>, <<10, 10, 10, 200>>, <<1, 1, 1, 1>>),
     PoolForm(TRUE, <<10, 10, 10, 100>>, <<10, 10, 10, 50>>, <<1, 1, 1, 1>>),
     PoolForm(TRUE, <<10, 10, 10, 100>>, <<10, 10, 10, 200>>, <<1, 1>>),
     PoolForm(TRUE, <<>>, <<10, 10, 10, 200>>, <<>>)}

\* POST /dhcp/save
DHCPForms ==
    {[bridge |-> "vmbr1", pool |-> q] : q \in {NoPoolForm, GoodPoolForm} \cup BadPoolForms}
    \cup {[bridge |-> "br-1", pool |-> NoPoolForm]}

\* POST /bridges/attach
AttachForms ==
    {[name |-> "vmbr1", nat |-> nat, pool |-> q] :
        nat \in BOOLEAN, q \in {NoPoolForm, GoodPoolForm}}
    \cup {[name |-> "vmbr1", nat |-> TRUE, pool |-> q] : q \in BadPoolForms}
    \cup {[name |-> n, nat |-> FALSE, pool |-> NoPoolForm] : n \in {"vmbr2", "", "br-1"}}

\* POST /bridges/create
CreateForms ==
    {[name |-> "vmbr2", subnet |-> Net20, gateway |-> <<10, 10, 20, 1>>,
      nat |-> nat, pool |-> NoPoolForm] : nat \in BOOLEAN}
    \cup {[name |-> "vmbr2", subnet |-> Net20, gateway |-> <<10, 10, 20, 1>>,
           nat |-> TRUE, pool |-> GoodPoolForm],
          [name |-> "vmbr2", subnet |-> Net20, gateway |-> <<10, 10, 10, 1>>,
           nat |-> TRUE, pool |-> NoPoolForm],
          [name |-> "", subnet |-> Net20, gateway |-> <<10, 10, 20, 1>>,
           nat |-> TRUE, pool |-> NoPoolForm],
          [name |-> "br-1", subnet |-> Net20, gateway |-> <<10, 10, 20, 1>>,
           nat |-> TRUE, pool |-> NoPoolForm]}

\* what the console's forms are filled with
TuiProtocols == {"tcp"}
TuiPorts == {<<2, 2>>, <<>>}
TuiIntIPs == {<<10, 10, 10, 5>>, <<10, 10, 20, 5>>}
TuiStarts == {<<10, 10, 10, 100>>}
TuiEnds == {<<10, 10, 10, 200>>, <<10, 10, 10, 50>>}

\* the inventory before any bridge is created through PNAT
PxInitial ==
    [n \in BridgeNames |->
        IF n = "vmbr1" THEN <<[ip |-> <<10, 10, 10, 1>>, ones |-> 24]>> ELSE <<>>]

\* a table left loaded by an earlier run of the service
StaleTable ==
    <<[prerouting |-> <<>>,
       postrouting |-> <<[oifname |-> WanInterface,
                          saddr |-> [ip |-> <<10, 10, 99, 0>>, ones |-> 24]]>>]>>

\* the model the console starts from: one bridge attached through the web
\* service earlier, as HandleBridgeAttach stores it
TuiInitial ==
    <<BridgeConfig("vmbr1", [ip |-> <<10, 10, 10, 0>>, ones |-> 24],
                   <<10, 10, 10, 1>>, FALSE, <<>>)>>

NoFile == FileAbsent(<<>>)
NoRulesFile == FileAbsent(EmptyRules)

(***************************************************************************)
(* State.                                                                  *)
(***************************************************************************)
VARIABLES
    mode,       \* "web": the service (main.go); "tui": the console (runTUI)
    cfg,        \* Config.Bridges of the running process
    mu,         \* Config.mu: the process holding it, or "free"
    disk,       \* the file at Config.path
    diskTmp,    \* the file at Config.path + ".tmp"
    rulesFile,  \* /run/pnat/rules.nft
    rulesTmp,   \* /run/pnat/rules.nft.tmp
    table,      \* the live nftables table "ip pnat"
    ipForward,  \* [proc, sysctl]: ip_forward set now / persisted
    dnsConf,    \* /etc/pnat/dnsmasq.conf
    dnsUnit,    \* pnat-dnsmasq.service: [active, conf]
    pxNet,      \* the inventory's bridges: name -> <<cidr>> or <<>>
    pc,         \* where each request is
    kind,       \* which handler each request runs
    arg,        \* HandleBridgeCreate's bridge between its two locked sections
    log,        \* what each request has done so far
    nextID,     \* stands for generateID(): the next unused identifier
    refs,       \* the console's forwards table: the IDs drawn at the last redraw
    faults,     \* external failures injected so far
    sinceFault, \* requests begun since the first injected failure
    store       \* the SessionStore, the clock it reads, and what was issued

vars == <<mode, cfg, mu, disk, diskTmp, rulesFile, rulesTmp, table, ipForward,
          dnsConf, dnsUnit, pxNet, pc, kind, arg, log, nextID, refs, faults,
          sinceFault, store>>

files == <<disk, diskTmp, rulesFile, rulesTmp, dnsConf>>
live == <<table, ipForward, dnsUnit>>

MaxFaults == 1

CanFail == faults < MaxFaults

\* how many requests the model follows after an injected failure
MaxAfterFault == 0

MayBegin == faults = 0 \/ sinceFault < MaxAfterFault
Begin ==
    /\ sinceFault' = IF faults = 0 THEN sinceFault ELSE sinceFault + 1
    /\ UNCHANGED store

\* NewSessionStore(): no session; issued and deleted record the calls made
NoSessions == [sessions |-> {}, now |-> 0, issued |-> {}, deleted |-> {}]

Init ==
    /\ mode \in {"web", "tui"}
    /\ cfg = IF mode = "web" THEN <<>> ELSE TuiInitial
    /\ mu = "free"
    /\ disk = FileOf(Marshal(cfg))
    /\ diskTmp = NoFile
    /\ rulesFile = NoRulesFile
    /\ rulesTmp = NoRulesFile
    /\ table \in {<<>>, StaleTable}
    /\ ipForward = [proc |-> FALSE, sysctl |-> FALSE]
    /\ dnsConf = NoFile
    /\ dnsUnit = [active |-> FALSE, conf |-> <<>>]
    /\ pxNet = PxInitial
    /\ pc = [p \in Procs |-> IF mode = "web" /\ p = "w1" THEN "nft" ELSE "idle"]
    /\ kind = [p \in Procs |-> IF mode = "web" /\ p = "w1" THEN "startup" ELSE "none"]
    /\ arg = [p \in Procs |-> <<>>]
    /\ log = [p \in Procs |-> <<>>]
    /\ nextID = 1
    /\ refs = {}
    /\ faults = 0
    /\ sinceFault = 0
    /\ store = NoSessions

\* main(): requests are served only after the startup applies
Serving == \A p \in Procs : kind[p] # "startup"

(***************************************************************************)
(* Control flow of the handlers after the in-memory change.                *)
(***************************************************************************)
FirewallKinds == {"nat_toggle", "fwd_create", "fwd_delete", "fwd_toggle"}
BridgeKinds == {"bridge_create", "bridge_attach", "bridge_detach"}
WebKinds == FirewallKinds \cup BridgeKinds \cup {"dhcp_save"}
TuiKinds == {"tui_nat", "tui_fwd_add", "tui_fwd_toggle", "tui_fwd_delete", "tui_dhcp"}

\* where a handler goes when Config.Save has returned (ok: without error)
AfterSave(k, ok) ==
    IF k \in TuiKinds THEN (IF ok THEN "nft" ELSE "unlock")
    ELSE IF k = "dhcp_save" THEN "dns"
    ELSE "nft"

\* a faulty variant of AfterNft: every web handler goes on to the DHCP
\* reconciler
AfterNftBoth(k, ok) ==
    IF k \in TuiKinds THEN (IF ok THEN "dns" ELSE "unlock") ELSE "dns"

\* a faulty variant of AfterNft: the process gives up when the firewall
\* cannot be applied at startup
AfterNftStartupAborts(k, ok) ==
    IF k \in TuiKinds THEN (IF ok THEN "dns" ELSE "unlock")
    ELSE IF k = "startup" THEN (IF ok THEN "dns" ELSE "exit")
    ELSE IF k \in BridgeKinds THEN "dns"
    ELSE "unlock"

\* where a handler goes when NFTManager.Apply has returned
AfterNft(k, ok) ==
    IF k \in TuiKinds THEN (IF ok THEN "dns" ELSE "unlock")
    ELSE IF k \in BridgeKinds \cup {"startup"} THEN "dns"
    ELSE "unlock"

\* a faulty variant of AfterDns: the handler returns past its Unlock
AfterDnsKeepsLock(k) == IF k = "startup" THEN "idle" ELSE "return"

\* where a handler goes when DNSMasqManager.Apply has returned
AfterDns(k) == IF k = "startup" THEN "idle" ELSE "unlock"

Goto(p, to) == pc' = [pc EXCEPT ![p] = to]
Note(p, entry) == log' = [log EXCEPT ![p] = Append(@, entry)]

(***************************************************************************)
(* Web handlers (one goroutine per request).                               *)
(***************************************************************************)
\* A handler that parses the form, takes the lock, and checks and changes
\* the model under it.  parseErr is the verdict of the checks made before
\* the lock, res that of the locked section.
Locked(p, k, parseErr, res) ==
    /\ mode = "web" /\ Serving
    /\ pc[p] = "idle"
    /\ MayBegin /\ Begin
    /\ kind' = [kind EXCEPT ![p] = k]
    /\ IF parseErr # ""
       THEN /\ Goto(p, "return")
            /\ Note(p, "reject")
            /\ UNCHANGED <<cfg, mu>>
       ELSE /\ mu = "free"
            /\ mu' = p
            /\ cfg' = res.Bridges
            /\ IF res.err # ""
               THEN Goto(p, "unlock") /\ Note(p, "reject")
               ELSE Goto(p, "save") /\ Note(p, "mutate")
    /\ UNCHANGED <<mode, files, live, pxNet, arg, faults>>

WebNATToggle(p) ==
    /\ mode = "web" /\ pc[p] = "idle"
    /\ \E name \in ReqNames :
        /\ Locked(p, "nat_toggle", "", HandleNATToggle(cfg, name))
        /\ UNCHANGED <<nextID, refs>>

WebForwardCreate(p) ==
    /\ mode = "web" /\ pc[p] = "idle"
    /\ \E f \in ForwardForms :
        LET parseErr == ForwardCreateParse(f.protocol, f.ext_port, f.int_ip, f.int_port)
            res == HandleForwardCreate(cfg, nextID, f.bridge, f.protocol, f.ext_port,
                                       f.int_ip, f.int_port, "")
        IN
        /\ nextID <= MaxForwards
        /\ Locked(p, "fwd_create", parseErr, res)
        /\ nextID' = IF parseErr = "" /\ res.err = "" THEN nextID + 1 ELSE nextID
        /\ UNCHANGED refs

WebForwardDelete(p) ==
    /\ mode = "web" /\ pc[p] = "idle"
    /\ \E id \in ForwardIDs :
        /\ Locked(p, "fwd_delete", "", HandleForwardDelete(cfg, id))
        /\ UNCHANGED <<nextID, refs>>

WebForwardToggle(p) ==
    /\ mode = "web" /\ pc[p] = "idle"
    /\ \E id \in ForwardIDs :
        /\ Locked(p, "fwd_toggle", "", HandleForwardToggle(cfg, id))
        /\ UNCHANGED <<nextID, refs>>

WebBridgeAttach(p, cap) ==
    /\ mode = "web" /\ pc[p] = "idle"
    /\ \E f \in AttachForms :
        LET q == f.pool
            cidr == IF f.name \in BridgeNames THEN pxNet[f.name] ELSE <<>>
            parseErr == BridgeAttachParse(f.name, cidr, q.dhcp_enabled, q.range_start,
                                          q.range_end, q.dns1, <<>>)
            br == BridgeConfig(f.name, subnetFromCIDR(cidr[1]), cidr[1].ip, f.nat,
                               FormPool(q.dhcp_enabled, q.range_start, q.range_end,
                                        "", q.dns1, <<>>))
        IN
        /\ parseErr = "" => Len(HandleBridgeAttach(cfg, br).Bridges) <= cap
        /\ Locked(p, "bridge_attach", parseErr,
                  IF parseErr = "" THEN HandleBridgeAttach(cfg, br) ELSE Accept(cfg))
        /\ UNCHANGED <<nextID, refs>>

WebBridgeDetach(p) ==
    /\ mode = "web" /\ pc[p] = "idle"
    /\ \E name \in ReqNames :
        /\ Locked(p, "bridge_detach",
                  IF name = "" THEN "Bridge name is required" ELSE "",
                  HandleBridgeDetach(cfg, name))
        /\ UNCHANGED <<nextID, refs>>

WebDHCPSave(p) ==
    /\ mode = "web" /\ pc[p] = "idle"
    /\ \E f \in DHCPForms :
        /\ Locked(p, "dhcp_save", "",
                  HandleDHCPSave(cfg, f.bridge, f.pool.dhcp_enabled, f.pool.range_start,
                                 f.pool.range_end, "", f.pool.dns1, <<>>))
        /\ UNCHANGED <<nextID, refs>>

\* HandleDashboard, HandleForwardsList, HandleDHCPList: app.cfg.Bridges is
\* read without Config.Lock, whatever the mutex's state
WebRead(p) ==
    /\ mode = "web" /\ Serving
    /\ pc[p] = "idle"
    /\ MayBegin
    /\ kind' = [kind EXCEPT ![p] = "read"]
    /\ arg' = [arg EXCEPT ![p] = <<[seen |-> cfg]>>]
    /\ Goto(p, "render")
    /\ UNCHANGED <<mode, cfg, mu, files, live, pxNet, log, nextID, refs, faults>>
    /\ UNCHANGED <<sinceFault, store>>

\* app.render: the page is written from what was read
WebRender(p) ==
    /\ pc[p] = "render"
    /\ kind' = [kind EXCEPT ![p] = "none"]
    /\ arg' = [arg EXCEPT ![p] = <<>>]
    /\ Goto(p, "idle")
    /\ UNCHANGED <<mode, cfg, mu, files, live, pxNet, log, nextID, refs, faults>>
    /\ UNCHANGED <<sinceFault, store>>

\* HandleBridgeCreate, lines 1148-1215: the form checks, then a first locked
\* section that only looks whether the name is already managed
WebBridgeCreateCheck(p, cap) ==
    /\ mode = "web" /\ pc[p] = "idle"
    /\ \E f \in CreateForms :
        LET q == f.pool
            parseErr == BridgeCreateParse(f.name, f.subnet, f.gateway, q.dhcp_enabled,
                                          q.range_start, q.range_end, q.dns1, <<>>)
            br == BridgeConfig(f.name, subnetFromCIDR(f.subnet), f.gateway, f.nat,
                               FormPool(q.dhcp_enabled, q.range_start, q.range_end,
                                        "", q.dns1, <<>>))
        IN
        /\ mode = "web" /\ Serving
        /\ pc[p] = "idle"
        /\ MayBegin /\ Begin
        /\ (parseErr = "" /\ FindBridge(cfg, f.name) = 0) => Len(cfg) < cap
        /\ kind' = [kind EXCEPT ![p] = "bridge_create"]
        /\ IF parseErr # ""
           THEN Goto(p, "return") /\ Note(p, "reject") /\ UNCHANGED arg
           ELSE /\ mu = "free"
                /\ IF FindBridge(cfg, f.name) # 0
                   THEN Goto(p, "return") /\ Note(p, "reject") /\ UNCHANGED arg
                   ELSE /\ Goto(p, "px_create")
                        /\ arg' = [arg EXCEPT ![p] = <<br>>]
                        /\ UNCHANGED log
        /\ UNCHANGED <<mode, cfg, mu, files, live, pxNet, nextID, refs, faults>>

\* HandleBridgeCreate, lines 1217-1240: the bridge is created in the inventory
WebBridgeCreatePx(p) ==
    /\ pc[p] = "px_create"
    /\ \/ /\ pxNet[arg[p][1].Name] = <<>>
          /\ pxNet' = [pxNet EXCEPT ![arg[p][1].Name] =
                          <<[ip |-> arg[p][1].GatewayIP, ones |-> arg[p][1].Subnet.ones]>>]
          /\ Goto(p, "create_lock")
          /\ UNCHANGED <<arg, log, faults>>
       \/ /\ CanFail \/ pxNet[arg[p][1].Name] # <<>>
          /\ faults' = IF pxNet[arg[p][1].Name] # <<>> THEN faults ELSE faults + 1
          /\ Goto(p, "return")
          /\ Note(p, "px_err")
          /\ arg' = [arg EXCEPT ![p] = <<>>]
          /\ UNCHANGED pxNet
    /\ UNCHANGED <<mode, cfg, mu, files, live, kind, nextID, refs>>
    /\ UNCHANGED <<sinceFault, store>>

\* HandleBridgeCreate, lines 1242-1258: the second locked section
WebBridgeCreateAppend(p, cap) ==
    /\ pc[p] = "create_lock"
    /\ mu = "free"
    /\ Len(cfg) < cap
    /\ mu' = p
    /\ cfg' = HandleBridgeCreate(cfg, arg[p][1]).Bridges
    /\ arg' = [arg EXCEPT ![p] = <<>>]
    /\ Goto(p, "save")
    /\ Note(p, "mutate")
    /\ UNCHANGED <<mode, files, live, pxNet, kind, nextID, refs, faults>>
    /\ UNCHANGED <<sinceFault, store>>

(***************************************************************************)
(* Config.Save: marshal, write the sibling temporary file, rename it over  *)
(* the canonical path.                                                     *)
(***************************************************************************)
\* a faulty variant of SaveTarget: the canonical path is written in place
SaveTargetInPlace == "canonical"

\* the path os.WriteFile(tmp, ...) writes to: "tmp" is the sibling file
SaveTarget == "tmp"

\* Config.Save, lines 57-60
SaveWrite(p) ==
    /\ pc[p] = "save"
    /\ \/ /\ IF SaveTarget = "tmp"
             THEN diskTmp' = FileOf(Marshal(cfg)) /\ UNCHANGED disk
             ELSE disk' = FileOf(Marshal(cfg)) /\ UNCHANGED diskTmp
          /\ Goto(p, "save_rename")
          /\ UNCHANGED <<log, faults>>
       \/ /\ CanFail
          /\ faults' = faults + 1
          /\ IF SaveTarget = "tmp"
             THEN diskTmp' \in {diskTmp, FilePartial(<<>>)} /\ UNCHANGED disk
             ELSE disk' \in {disk, FilePartial(<<>>)} /\ UNCHANGED diskTmp
          /\ Goto(p, AfterSave(kind[p], FALSE))
          /\ Note(p, "save_err")
    /\ UNCHANGED <<mode, cfg, mu, rulesFile, rulesTmp, dnsConf, live, pxNet, kind, arg, nextID, refs>>
    /\ UNCHANGED <<sinceFault, store>>

\* Config.Save, lines 61-65
SaveRename(p) ==
    /\ pc[p] = "save_rename"
    /\ \/ /\ IF SaveTarget = "tmp"
             THEN disk' = diskTmp /\ diskTmp' = NoFile
             ELSE UNCHANGED <<disk, diskTmp>>
          /\ Goto(p, AfterSave(kind[p], TRUE))
          /\ Note(p, "save_ok")
          /\ UNCHANGED faults
       \/ /\ CanFail
          /\ faults' = faults + 1
          /\ diskTmp' = NoFile
          /\ UNCHANGED disk
          /\ Goto(p, AfterSave(kind[p], FALSE))
          /\ Note(p, "save_err")
    /\ UNCHANGED <<mode, cfg, mu, rulesFile, rulesTmp, dnsConf, live, pxNet, kind, arg, nextID, refs>>
    /\ UNCHANGED <<sinceFault, store>>

(***************************************************************************)
(* NFTManager.Apply.                                                       *)
(***************************************************************************)
\* nft's diagnostics that Remove and Status read as "the table is absent"
AbsentDiagnostic(out) == out \in {"No such file or directory", "does not exist"}

\* a faulty variant of RemoveErr: every non-zero exit is an error, the
\* absent table included
RemoveErrStrict(out) == IF out = "" THEN "" ELSE "nft delete table"

\* NFTManager.Remove: the error returned for a tool result
\* ("" exit 0, otherwise the diagnostic of a non-zero exit)
RemoveErr(out) == IF out = "" \/ AbsentDiagnostic(out) THEN "" ELSE "nft delete table"

\* what "nft delete table ip pnat" prints
RemoveOutputs(tbl) ==
    IF tbl = <<>> THEN {"No such file or directory"} ELSE {""}

\* enableIPForward: the transient write, then the persistent one; the result
\* is [proc, sysctl, err] for the two writes' outcomes
enableIPForward(cur, procOK, sysctlOK) ==
    IF ~procOK THEN [proc |-> cur.proc, sysctl |-> cur.sysctl, err |-> "write ip_forward"]
    ELSE [proc |-> TRUE, sysctl |-> (cur.sysctl \/ sysctlOK), err |-> ""]

\* NFTManager.Apply, lines 62-86
NftBegin(p) ==
    /\ pc[p] = "nft"
    /\ IF hasNAT(cfg)
       THEN \E procOK \in BOOLEAN, sysctlOK \in BOOLEAN :
               /\ (procOK /\ sysctlOK) \/ CanFail
               /\ faults' = IF procOK /\ sysctlOK THEN faults ELSE faults + 1
               /\ ipForward' = [proc |-> enableIPForward(ipForward, procOK, sysctlOK).proc,
                                sysctl |-> enableIPForward(ipForward, procOK, sysctlOK).sysctl]
       ELSE UNCHANGED <<ipForward, faults>>
    /\ Goto(p, IF hasRules(cfg) THEN "nft_write" ELSE "nft_remove")
    /\ UNCHANGED <<mode, cfg, mu, files, table, dnsUnit, pxNet, kind, arg, log, nextID, refs>>
    /\ UNCHANGED <<sinceFault, store>>

\* NFTManager.Remove
NftRemove(p) ==
    /\ pc[p] = "nft_remove"
    /\ \/ \E out \in RemoveOutputs(table) :
             /\ table' = <<>>
             /\ Goto(p, AfterNft(kind[p], RemoveErr(out) = ""))
             /\ Note(p, IF RemoveErr(out) = "" THEN "nft_ok" ELSE "nft_err")
             /\ UNCHANGED faults
       \/ /\ CanFail
          /\ faults' = faults + 1
          /\ UNCHANGED table
          /\ Goto(p, AfterNft(kind[p], RemoveErr("Operation not permitted") = ""))
          /\ Note(p, IF RemoveErr("Operation not permitted") = "" THEN "nft_ok" ELSE "nft_err")
    /\ UNCHANGED <<mode, cfg, mu, files, ipForward, dnsUnit, pxNet, kind, arg, nextID, refs>>
    /\ UNCHANGED <<sinceFault, store>>

\* a faulty variant of RulesTarget: rules.nft is written in place
RulesTargetInPlace == "canonical"

\* the path os.WriteFile(tmp, ...) writes to: "tmp" is rules.nft.tmp
RulesTarget == "tmp"

\* NFTManager.Apply, lines 88-97
NftWrite(p) ==
    /\ pc[p] = "nft_write"
    /\ \/ /\ IF RulesTarget = "tmp"
             THEN rulesTmp' = FileOf(generateRuleset(cfg)) /\ UNCHANGED rulesFile
             ELSE rulesFile' = FileOf(generateRuleset(cfg)) /\ UNCHANGED rulesTmp
          /\ Goto(p, "nft_rename")
          /\ UNCHANGED <<log, faults>>
       \/ /\ CanFail
          /\ faults' = faults + 1
          /\ IF RulesTarget = "tmp"
             THEN rulesTmp' \in {rulesTmp, FilePartial(EmptyRules)} /\ UNCHANGED rulesFile
             ELSE rulesFile' \in {rulesFile, FilePartial(EmptyRules)} /\ UNCHANGED rulesTmp
          /\ Goto(p, AfterNft(kind[p], FALSE))
          /\ Note(p, "nft_err")
    /\ UNCHANGED <<mode, cfg, mu, disk, diskTmp, dnsConf, live, pxNet, kind, arg, nextID, refs>>
    /\ UNCHANGED <<sinceFault, store>>

\* NFTManager.Apply, lines 98-101
NftRename(p) ==
    /\ pc[p] = "nft_rename"
    /\ \/ /\ IF RulesTarget = "tmp"
             THEN rulesFile' = rulesTmp /\ rulesTmp' = NoRulesFile
             ELSE UNCHANGED <<rulesFile, rulesTmp>>
          /\ Goto(p, "nft_load")
          /\ UNCHANGED <<log, faults>>
       \/ /\ CanFail
          /\ faults' = faults + 1
          /\ rulesTmp' = NoRulesFile
          /\ UNCHANGED rulesFile
          /\ Goto(p, AfterNft(kind[p], FALSE))
          /\ Note(p, "nft_err")
    /\ UNCHANGED <<mode, cfg, mu, disk, diskTmp, dnsConf, live, pxNet, kind, arg, nextID, refs>>
    /\ UNCHANGED <<sinceFault, store>>

\* NFTManager.Apply, lines 103-110: "nft -f rules.nft"
NftLoad(p) ==
    /\ pc[p] = "nft_load"
    /\ \/ /\ table' = NftExec(table, rulesFile.data, TRUE)
          /\ Goto(p, AfterNft(kind[p], TRUE))
          /\ Note(p, "nft_ok")
          /\ UNCHANGED faults
       \/ /\ CanFail
          /\ faults' = faults + 1
          /\ table' = NftExec(table, rulesFile.data, FALSE)
          /\ Goto(p, AfterNft(kind[p], FALSE))
          /\ Note(p, "nft_err")
    /\ UNCHANGED <<mode, cfg, mu, files, ipForward, dnsUnit, pxNet, kind, arg, nextID, refs>>
    /\ UNCHANGED <<sinceFault, store>>

(***************************************************************************)
(* DNSMasqManager.Apply.                                                   *)
(***************************************************************************)
\* DNSMasqManager.stop: the error returned for systemctl's result
StopErr(out) == IF out = "" \/ out \in {"not loaded", "not found"} THEN "" ELSE "stop dnsmasq"

\* a faulty variant of WrittenConfig: the text is added to the end of the
\* file already there
WrittenConfigAppended(bs) == dnsConf.data \o generateConfig(bs)

\* the bytes os.WriteFile puts in dnsmasq.conf: the compiler's text and
\* nothing else
WrittenConfig(bs) == generateConfig(bs)

\* DNSMasqManager.Apply, lines 440-455
DnsBegin(p) ==
    /\ pc[p] = "dns"
    /\ IF ~hasDHCP(cfg)
       THEN \/ \E out \in {"", "not loaded"} :
                 /\ dnsUnit' = [dnsUnit EXCEPT !.active = FALSE]
                 /\ Goto(p, AfterDns(kind[p]))
                 /\ Note(p, IF StopErr(out) = "" THEN "dns_ok" ELSE "dns_err")
                 /\ UNCHANGED <<dnsConf, faults>>
            \/ /\ CanFail
               /\ faults' = faults + 1
               /\ Goto(p, AfterDns(kind[p]))
               /\ Note(p, IF StopErr("Job failed") = "" THEN "dns_ok" ELSE "dns_err")
               /\ UNCHANGED <<dnsConf, dnsUnit>>
       ELSE \/ /\ dnsConf' = FileOf(WrittenConfig(cfg))
               /\ Goto(p, "dns_restart")
               /\ UNCHANGED <<log, dnsUnit, faults>>
            \/ /\ CanFail
               /\ faults' = faults + 1
               /\ dnsConf' \in {dnsConf, FilePartial(<<>>)}
               /\ Goto(p, AfterDns(kind[p]))
               /\ Note(p, "dns_err")
               /\ UNCHANGED dnsUnit
    /\ UNCHANGED <<mode, cfg, mu, disk, diskTmp, rulesFile, rulesTmp, table, ipForward,
                   pxNet, kind, arg, nextID, refs>>
    /\ UNCHANGED <<sinceFault, store>>

\* what systemctl prints when the restart fails
RestartOutputs == {"Job for pnat-dnsmasq.service failed", ""}

\* the error Apply returns for the result of "systemctl restart": none for
\* exit status 0, otherwise the text "restart dnsmasq" with the output
RestartErr(status, out) == IF status = 0 THEN <<>> ELSE <<"restart dnsmasq", out>>

\* a faulty variant of Restarted: "systemctl reload", which hands the new
\* file to a running daemon and starts none
Reloaded(unit, conf) == [unit EXCEPT !.conf = conf.data]

\* the unit after a successful "systemctl restart": a new daemon that has
\* read the file
Restarted(unit, conf) == [active |-> TRUE, conf |-> conf.data]

\* DNSMasqManager.Apply, lines 457-464: "systemctl restart"
DnsRestart(p) ==
    /\ pc[p] = "dns_restart"
    /\ \/ /\ dnsUnit' = Restarted(dnsUnit, dnsConf)
          /\ Note(p, IF RestartErr(0, "") = <<>> THEN "dns_ok" ELSE "dns_err")
          /\ UNCHANGED faults
       \/ /\ CanFail
          /\ faults' = faults + 1
          /\ dnsUnit' \in {dnsUnit, [dnsUnit EXCEPT !.active = FALSE]}
          /\ \E out \in RestartOutputs :
                Note(p, IF RestartErr(1, out) = <<>> THEN "dns_ok" ELSE "dns_err")
    /\ Goto(p, AfterDns(kind[p]))
    /\ UNCHANGED <<mode, cfg, mu, files, table, ipForward, pxNet, kind, arg, nextID, refs>>
    /\ UNCHANGED <<sinceFault, store>>

(***************************************************************************)
(* NFTManager.Status.                                                      *)
(***************************************************************************)
\* what "nft list table ip pnat" reports besides the listing: "" with exit
\* status 0, a diagnostic otherwise
ListOutputs(tbl) ==
    IF tbl = <<>> THEN {"No such file or directory"} ELSE {""}

\* a faulty variant of Status: the absent table is an error like any other
StatusNoSentinel(tbl, out) ==
    IF out = "" THEN [rules |-> tbl, err |-> ""]
    ELSE [rules |-> "", err |-> "nft list"]

\* NFTManager.Status: the listing, the sentinel when the table is absent, or
\* the error of any other non-zero exit
Status(tbl, out) ==
    IF out = "" THEN [rules |-> tbl, err |-> ""]
    ELSE IF AbsentDiagnostic(out) THEN [rules |-> "(no rules loaded)", err |-> ""]
    ELSE [rules |-> "", err |-> "nft list"]

\* HandleAPINFTStatus: NFTManager.Status and nothing else
WebStatus(p) ==
    /\ mode = "web" /\ Serving
    /\ pc[p] = "idle"
    /\ MayBegin
    /\ kind' = [kind EXCEPT ![p] = "status"]
    /\ \/ /\ \E out \in ListOutputs(table) :
                arg' = [arg EXCEPT ![p] = <<Status(table, out)>>]
          /\ UNCHANGED faults
       \/ /\ CanFail
          /\ faults' = faults + 1
          /\ arg' = [arg EXCEPT ![p] = <<Status(table, "Operation not permitted")>>]
    /\ Goto(p, "render")
    /\ UNCHANGED <<mode, cfg, mu, files, live, pxNet, log, nextID, refs>>
    /\ UNCHANGED <<sinceFault, store>>

(***************************************************************************)
(* Leaving a web handler.                                                  *)
(***************************************************************************)
\* the deferred Config.Unlock and the handler's return
Unlock(p) ==
    /\ p # "tui"
    /\ pc[p] = "unlock"
    /\ mu' = IF mu = p THEN "free" ELSE mu
    /\ Goto(p, "idle")
    /\ kind' = [kind EXCEPT ![p] = "none"]
    /\ log' = [log EXCEPT ![p] = <<>>]
    /\ UNCHANGED <<mode, cfg, files, live, pxNet, arg, nextID, refs, faults>>
    /\ UNCHANGED <<sinceFault, store>>

\* the return of a handler that holds no lock
Return(p) ==
    /\ pc[p] = "return"
    /\ Goto(p, "idle")
    /\ kind' = [kind EXCEPT ![p] = "none"]
    /\ log' = [log EXCEPT ![p] = <<>>]
    /\ UNCHANGED <<mode, cfg, mu, files, live, pxNet, arg, nextID, refs, faults>>
    /\ UNCHANGED <<sinceFault, store>>

\* main(), lines 118-131: the startup applies are over, the server listens
StartServing(p) ==
    /\ kind[p] = "startup"
    /\ pc[p] = "idle"
    /\ kind' = [kind EXCEPT ![p] = "none"]
    /\ log' = [log EXCEPT ![p] = <<>>]
    /\ UNCHANGED <<mode, cfg, mu, files, live, pxNet, pc, arg, nextID, refs, faults>>
    /\ UNCHANGED <<sinceFault, store>>

(***************************************************************************)
(* Console (TUI): one event loop, one handler at a time.                   *)
(***************************************************************************)
IDsOf(bs) == {bs[i].Forwards[j].ID :
                 <<i, j>> \in {q \in (1..Len(bs)) \X (1..MaxForwards + 1) :
                                   q[2] <= Len(bs[q[1]].Forwards)}}

NamesOf(bs) == {bs[i].Name : i \in 1..Len(bs)}

\* a key handler: Lock, change the model, Unlock; apply() comes next
TuiChange(k, bs) ==
    /\ mode = "tui"
    /\ pc["tui"] = "idle"
    /\ MayBegin /\ Begin
    /\ mu = "free"
    /\ cfg' = bs
    /\ kind' = [kind EXCEPT !["tui"] = k]
    /\ Goto("tui", "tui_apply")
    /\ Note("tui", "mutate")
    /\ UNCHANGED <<mode, mu, files, live, pxNet, arg, refs, faults>>

\* dashboardPage, key 't'
TuiNATKey ==
    /\ mode = "tui" /\ pc["tui"] = "idle"
    /\ \E name \in NamesOf(cfg) :
        TuiChange("tui_nat", TuiToggleNAT(cfg, name)) /\ UNCHANGED nextID

\* forwardsPage, the Add button
TuiAddButton ==
    /\ mode = "tui" /\ pc["tui"] = "idle"
    /\ \E name \in NamesOf(cfg), proto \in TuiProtocols, ext \in TuiPorts,
       ip \in TuiIntIPs :
        /\ nextID <= MaxForwards
        /\ TuiChange("tui_fwd_add",
                     TuiAddForward(cfg, nextID, name, proto, ext, ip, <<2, 2>>, ""))
        /\ nextID' = nextID + 1

\* forwardsPage, key 't'
TuiForwardToggleKey ==
    /\ mode = "tui" /\ pc["tui"] = "idle"
    /\ \E id \in refs :
        TuiChange("tui_fwd_toggle", TuiToggleForward(cfg, id)) /\ UNCHANGED nextID

\* forwardsPage, key 'x'
TuiForwardDeleteKey ==
    /\ mode = "tui" /\ pc["tui"] = "idle"
    /\ \E id \in refs :
        TuiChange("tui_fwd_delete", TuiDeleteForward(cfg, id)) /\ UNCHANGED nextID

\* dhcpPage, the Save button
TuiDHCPButton ==
    /\ mode = "tui" /\ pc["tui"] = "idle"
    /\ \E name \in NamesOf(cfg), enabled \in BOOLEAN, rs \in TuiStarts, re \in TuiEnds :
        /\ TuiChange("tui_dhcp",
                     TuiDHCPSave(cfg, name, enabled, rs, re, "12h", <<1, 1, 1, 1>>, <<>>))
        /\ UNCHANGED nextID

\* TUIMode.apply, line 173
TuiApplyLock ==
    /\ pc["tui"] = "tui_apply"
    /\ mu = "free"
    /\ mu' = "tui"
    /\ Goto("tui", "save")
    /\ UNCHANGED <<mode, cfg, files, live, pxNet, kind, arg, log, nextID, refs, faults>>
    /\ UNCHANGED <<sinceFault, store>>

\* apply() returned nil
ApplyOK(l) == Len(l) > 0 /\ l[Len(l)] = "dns_ok"

\* TUIMode.refresh: the model is reloaded unless LoadConfig fails
TuiReload(bs, file) == IF LoadConfig(file).ok THEN LoadConfig(file).Bridges ELSE bs

\* apply()'s deferred Unlock, then the key handler's tail: on success
\* refresh() and redrawAll(), on failure the footer message only
TuiUnlock ==
    /\ pc["tui"] = "unlock"
    /\ mu' = "free"
    /\ IF ApplyOK(log["tui"])
       THEN cfg' = TuiReload(cfg, disk) /\ refs' = IDsOf(cfg')
       ELSE UNCHANGED <<cfg, refs>>
    /\ Goto("tui", "idle")
    /\ kind' = [kind EXCEPT !["tui"] = "none"]
    /\ log' = [log EXCEPT !["tui"] = <<>>]
    /\ UNCHANGED <<mode, files, live, pxNet, arg, nextID, faults>>
    /\ UNCHANGED <<sinceFault, store>>

\* runTUI, key Ctrl+R: refresh(), then redrawAll() whatever refresh returned
TuiCtrlR ==
    /\ mode = "tui"
    /\ pc["tui"] = "idle"
    /\ cfg' = TuiReload(cfg, disk)
    /\ refs' = IDsOf(cfg')
    /\ UNCHANGED <<mode, mu, files, live, pxNet, pc, kind, arg, log, nextID, faults>>
    /\ UNCHANGED <<sinceFault, store>>

(***************************************************************************)
(* The program.                                                            *)
(***************************************************************************)
Next ==
    \/ \E p \in Workers : WebNATToggle(p)
    \/ \E p \in Workers : WebForwardCreate(p)
    \/ \E p \in Workers : WebForwardDelete(p)
    \/ \E p \in Workers : WebForwardToggle(p)
    \/ \E p \in Workers : WebBridgeCreateCheck(p, MaxBridges)
    \/ \E p \in Workers : WebBridgeCreatePx(p)
    \/ \E p \in Workers : WebBridgeCreateAppend(p, MaxBridges)
    \/ \E p \in Workers : WebBridgeAttach(p, MaxBridges)
    \/ \E p \in Workers : WebBridgeDetach(p)
    \/ \E p \in Workers : WebDHCPSave(p)
    \/ \E p \in Procs : SaveWrite(p)
    \/ \E p \in Procs : SaveRename(p)
    \/ \E p \in Procs : NftBegin(p)
    \/ \E p \in Procs : NftRemove(p)
    \/ \E p \in Procs : NftWrite(p)
    \/ \E p \in Procs : NftRename(p)
    \/ \E p \in Procs : NftLoad(p)
    \/ \E p \in Procs : DnsBegin(p)
    \/ \E p \in Procs : DnsRestart(p)
    \/ \E p \in Workers : Unlock(p)
    \/ \E p \in Workers : Return(p)
    \/ \E p \in Workers : StartServing(p)
    \/ TuiNATKey
    \/ TuiAddButton
    \/ TuiForwardToggleKey
    \/ TuiForwardDeleteKey
    \/ TuiDHCPButton
    \/ TuiApplyLock
    \/ TuiUnlock
    \/ TuiCtrlR

Spec == Init /\ [][Next]_vars

(***************************************************************************)
(* The web service with two bridge requests in flight: HandleBridgeCreate, *)
(* HandleBridgeAttach and HandleBridgeDetach run by two goroutines.        *)
(***************************************************************************)
InitRace == Init /\ mode = "web"

NextRace ==
    \/ \E p \in RaceWorkers : WebBridgeCreateCheck(p, RaceBridges)
    \/ \E p \in RaceWorkers : WebBridgeCreatePx(p)
    \/ \E p \in RaceWorkers : WebBridgeCreateAppend(p, RaceBridges)
    \/ \E p \in RaceWorkers : WebBridgeAttach(p, RaceBridges)
    \/ \E p \in RaceWorkers : WebBridgeDetach(p)
    \/ \E p \in RaceWorkers : SaveWrite(p)
    \/ \E p \in RaceWorkers : SaveRename(p)
    \/ \E p \in RaceWorkers : NftBegin(p)
    \/ \E p \in RaceWorkers : NftRemove(p)
    \/ \E p \in RaceWorkers : NftWrite(p)
    \/ \E p \in RaceWorkers : NftRename(p)
    \/ \E p \in RaceWorkers : NftLoad(p)
    \/ \E p \in RaceWorkers : DnsBegin(p)
    \/ \E p \in RaceWorkers : DnsRestart(p)
    \/ \E p \in RaceWorkers : Unlock(p)
    \/ \E p \in RaceWorkers : Return(p)
    \/ \E p \in RaceWorkers : StartServing(p)
    \/ \E p \in RaceWorkers : WebRead(p)
    \/ \E p \in RaceWorkers : WebStatus(p)
    \/ \E p \in RaceWorkers : WebRender(p)

SpecRace == InitRace /\ [][NextRace]_vars

\* The handlers of NextRace that take the model lock, under a scheduler that
\* runs every goroutine that can run and with external tools that return: a
\* request that has begun and can take a step takes one.
NextLock ==
    \/ \E p \in RaceWorkers : WebBridgeCreateCheck(p, RaceBridges)
    \/ \E p \in RaceWorkers : WebBridgeCreatePx(p)
    \/ \E p \in RaceWorkers : WebBridgeCreateAppend(p, RaceBridges)
    \/ \E p \in RaceWorkers : WebBridgeAttach(p, RaceBridges)
    \/ \E p \in RaceWorkers : WebBridgeDetach(p)
    \/ \E p \in RaceWorkers : SaveWrite(p)
    \/ \E p \in RaceWorkers : SaveRename(p)
    \/ \E p \in RaceWorkers : NftBegin(p)
    \/ \E p \in RaceWorkers : NftRemove(p)
    \/ \E p \in RaceWorkers : NftWrite(p)
    \/ \E p \in RaceWorkers : NftRename(p)
    \/ \E p \in RaceWorkers : NftLoad(p)
    \/ \E p \in RaceWorkers : DnsBegin(p)
    \/ \E p \in RaceWorkers : DnsRestart(p)
    \/ \E p \in RaceWorkers : Unlock(p)
    \/ \E p \in RaceWorkers : Return(p)
    \/ \E p \in RaceWorkers : StartServing(p)

Advance(p) ==
    \/ WebBridgeCreatePx(p)
    \/ WebBridgeCreateAppend(p, RaceBridges)
    \/ SaveWrite(p)
    \/ SaveRename(p)
    \/ NftBegin(p)
    \/ NftRemove(p)
    \/ NftWrite(p)
    \/ NftRename(p)
    \/ NftLoad(p)
    \/ DnsBegin(p)
    \/ DnsRestart(p)
    \/ Unlock(p)
    \/ Return(p)

SpecLock ==
    /\ InitRace /\ [][NextLock]_vars
    /\ \A p \in RaceWorkers : WF_vars(Advance(p))

(***************************************************************************)
(* The service started on a file it did not write in this run (written by  *)
(* an earlier run, by "pnat init", or edited by hand): LoadConfig, the     *)
(* startup applies, and the service started again later on the same file.  *)
(***************************************************************************)
Off(f) == [f EXCEPT !.Enabled = FALSE]

\* the forwards of a bridge in such a file
StartForwards ==
    {<<>>,
     <<PortForward(1, "tcp", 2222, <<10, 10, 10, 101>>, 22, "ssh")>>,
     <<PortForward(1, "tcp+udp", 53, <<10, 10, 10, 101>>, 53, ""),
       Off(PortForward(2, "tcp", 80, <<10, 10, 10, 102>>, 80, ""))>>,
     <<PortForward(1, "tcp", 22, <<10, 10, 10, 101>>, 22, ""),
       PortForward(2, "udp", 22, <<10, 10, 10, 101>>, 22, "")>>,
     <<Off(PortForward(1, "udp", 53, <<10, 10, 10, 101>>, 53, ""))>>,
     <<PortForward(1, "tcp", 0, <<10, 10, 10, 101>>, 22, "")>>}

\* the bridges of such a file: names, subnets (IPv4, IPv6, malformed) and
\* gateways (inside the subnet, outside it, empty) as a text editor can
\* leave them
StartBridges ==
    {[BridgeConfig(n, sn, gw, nat, dh) EXCEPT !.Forwards = fw] :
        n \in {"vmbr1", "br-1", ""},
        sn \in {Net10, [ip |-> <<64768, 0, 0, 0, 0, 0, 0, 0>>, ones |-> 64],
                [ip |-> <<10, 10, 10>>, ones |-> 24]},
        gw \in {<<10, 10, 10, 1>>, <<10, 10, 20, 1>>, <<>>},
        nat \in BOOLEAN,
        dh \in {<<>>, <<DHCPConfig(<<10, 10, 10, 100>>, <<10, 10, 10, 200>>, "12h",
                                   <<1, 1, 1, 1>>, <<>>)>>},
        fw \in StartForwards}

\* a second bridge next to the first
\* the pool of the second bridge: none, one with neither lease time nor DNS
\* server, one with two DNS servers, one with only the second DNS server
SecondPools ==
    {<<>>,
     <<DHCPConfig(<<10, 10, 20, 100>>, <<10, 10, 20, 200>>, "", <<>>, <<>>)>>,
     <<DHCPConfig(<<10, 10, 20, 100>>, <<10, 10, 20, 200>>, "1h",
                  <<1, 1, 1, 1>>, <<8, 8, 8, 8>>)>>,
     <<DHCPConfig(<<10, 10, 20, 100>>, <<10, 10, 20, 200>>, "1h",
                  <<>>, <<8, 8, 8, 8>>)>>}

SecondBridges ==
    {BridgeConfig(n, Net20, <<10, 10, 20, 1>>, nat, dh) :
        n \in {"vmbr1", "vmbr2"}, nat \in BOOLEAN, dh \in SecondPools}

StartModels ==
    {<<>>} \cup {<<b>> : b \in StartBridges}
    \cup {<<b, c>> : b \in {x \in StartBridges : x.Name = "vmbr1" /\ x.Subnet = Net10
                                                  /\ x.GatewayIP = <<10, 10, 10, 1>>},
                     c \in SecondBridges}

InitStart ==
    /\ mode = "web"
    /\ cfg = <<>>
    /\ mu = "free"
    /\ disk \in {FileOf(Marshal(m)) : m \in StartModels}
    /\ diskTmp = NoFile
    /\ rulesFile = NoRulesFile
    /\ rulesTmp = NoRulesFile
    /\ table \in {<<>>, StaleTable}
    /\ ipForward = [proc |-> FALSE, sysctl |-> FALSE]
    /\ dnsConf = NoFile
    /\ dnsUnit = [active |-> FALSE, conf |-> <<>>]
    /\ pxNet = PxInitial
    /\ pc = [p \in Procs |-> IF p = "w1" THEN "load" ELSE "idle"]
    /\ kind = [p \in Procs |-> IF p = "w1" THEN "startup" ELSE "none"]
    /\ arg = [p \in Procs |-> <<>>]
    /\ log = [p \in Procs |-> <<>>]
    /\ nextID = 1
    /\ refs = {}
    /\ faults = 0
    /\ sinceFault = 0
    /\ store = NoSessions

\* main(), lines 54-60: LoadConfig, os.Exit(1) when it fails
StartLoad(p) ==
    /\ pc[p] = "load"
    /\ IF LoadConfig(disk).ok
       THEN cfg' = LoadConfig(disk).Bridges /\ Goto(p, "nft") /\ Note(p, "load_ok")
       ELSE UNCHANGED cfg /\ Goto(p, "exit") /\ Note(p, "load_err")
    /\ UNCHANGED <<mode, mu, files, live, pxNet, kind, arg, nextID, refs, faults>>
    /\ UNCHANGED <<sinceFault, store>>

\* main(), lines 129-136: the process ends on a signal; it is started again
Restart(p) ==
    /\ pc[p] = "idle" /\ kind[p] = "none"
    /\ mu = "free"
    /\ cfg' = <<>>
    /\ Goto(p, "load")
    /\ kind' = [kind EXCEPT ![p] = "startup"]
    /\ UNCHANGED <<mode, mu, files, live, pxNet, arg, log, nextID, refs, faults>>
    /\ UNCHANGED <<sinceFault, store>>

NextStart ==
    \/ \E p \in Workers : StartLoad(p)
    \/ \E p \in Workers : NftBegin(p)
    \/ \E p \in Workers : NftRemove(p)
    \/ \E p \in Workers : NftWrite(p)
    \/ \E p \in Workers : NftRename(p)
    \/ \E p \in Workers : NftLoad(p)
    \/ \E p \in Workers : DnsBegin(p)
    \/ \E p \in Workers : DnsRestart(p)
    \/ \E p \in Workers : StartServing(p)
    \/ \E p \in Workers : Restart(p)

SpecStart == InitStart /\ [][NextStart]_vars

(***************************************************************************)
(* validateDHCPRange on valid subnet / gateway / start / end texts.        *)
(***************************************************************************)
RangeSubnets ==
    {[ip |-> <<10, 10, 10, 0>>, ones |-> 24], [ip |-> <<10, 10, 10, 77>>, ones |-> 24],
     [ip |-> <<10, 10, 10, 128>>, ones |-> 25], [ip |-> <<10, 10, 0, 0>>, ones |-> 16],
     [ip |-> <<10, 10, 10, 5>>, ones |-> 32], [ip |-> <<192, 160, 0, 0>>, ones |-> 12],
     [ip |-> <<0, 0, 0, 0>>, ones |-> 0]}

RangeAddrs ==
    {<<10, 10, 10, 1>>, <<10, 10, 10, 5>>, <<10, 10, 10, 100>>, <<10, 10, 10, 200>>,
     <<10, 10, 11, 7>>, <<10, 9, 255, 255>>, <<192, 168, 1, 10>>}

InitRange ==
    /\ mode = "web"
    /\ cfg = <<>>
    /\ mu = "free"
    /\ disk = FileOf(Marshal(cfg))
    /\ diskTmp = NoFile
    /\ rulesFile = NoRulesFile
    /\ rulesTmp = NoRulesFile
    /\ table = <<>>
    /\ ipForward = [proc |-> FALSE, sysctl |-> FALSE]
    /\ dnsConf = NoFile
    /\ dnsUnit = [active |-> FALSE, conf |-> <<>>]
    /\ pxNet = PxInitial
    /\ pc = [p \in Procs |-> IF p = "w1" THEN "range" ELSE "idle"]
    /\ kind = [p \in Procs |-> IF p = "w1" THEN "range" ELSE "none"]
    /\ \E sn \in RangeSubnets, gw \in RangeAddrs, rs \in RangeAddrs, re \in RangeAddrs :
          arg = [p \in Procs |->
                    IF p = "w1"
                    THEN <<[subnet |-> sn, gateway |-> gw, start |-> rs, end |-> re]>>
                    ELSE <<>>]
    /\ log = [p \in Procs |-> <<>>]
    /\ nextID = 1
    /\ refs = {}
    /\ faults = 0
    /\ sinceFault = 0
    /\ store = NoSessions

\* the call validateDHCPRange(subnet, gateway, start, end) and its verdict
ValidateRange(p) ==
    /\ pc[p] = "range"
    /\ Note(p, validateDHCPRange(arg[p][1].subnet, arg[p][1].gateway,
                                 arg[p][1].start, arg[p][1].end))
    /\ Goto(p, "return")
    /\ UNCHANGED <<mode, cfg, mu, files, live, pxNet, kind, arg, nextID, refs, faults>>
    /\ UNCHANGED <<sinceFault, store>>

NextRange ==
    \/ \E p \in Workers : ValidateRange(p)
    \/ \E p \in Workers : Return(p)

SpecRange == InitRange /\ [][NextRange]_vars

(***************************************************************************)
(* validateDHCPRange on texts that need not parse.                         *)
(***************************************************************************)
\* subnet texts: a canonical IPv4 prefix, an IPv6 prefix, a truncated address
TextSubnets ==
    {[ip |-> <<10, 10, 10, 0>>, ones |-> 24],
     [ip |-> <<64768, 0, 0, 0, 0, 0, 0, 0>>, ones |-> 64],
     [ip |-> <<10, 10, 10>>, ones |-> 24]}

\* address texts: four IPv4 addresses, the empty text, an IPv6 address
TextAddrs ==
    {<<10, 10, 10, 1>>, <<10, 10, 10, 100>>, <<10, 10, 10, 200>>, <<10, 10, 20, 5>>,
     <<>>, <<64768, 0, 0, 0, 0, 0, 0, 1>>}

InitTexts ==
    /\ mode = "web"
    /\ cfg = <<>>
    /\ mu = "free"
    /\ disk = FileOf(Marshal(cfg))
    /\ diskTmp = NoFile
    /\ rulesFile = NoRulesFile
    /\ rulesTmp = NoRulesFile
    /\ table = <<>>
    /\ ipForward = [proc |-> FALSE, sysctl |-> FALSE]
    /\ dnsConf = NoFile
    /\ dnsUnit = [active |-> FALSE, conf |-> <<>>]
    /\ pxNet = PxInitial
    /\ pc = [p \in Procs |-> IF p = "w1" THEN "range" ELSE "idle"]
    /\ kind = [p \in Procs |-> IF p = "w1" THEN "range" ELSE "none"]
    /\ \E sn \in TextSubnets, gw \in TextAddrs, rs \in TextAddrs, re \in TextAddrs :
          arg = [p \in Procs |->
                    IF p = "w1"
                    THEN <<[subnet |-> sn, gateway |-> gw, start |-> rs, end |-> re]>>
                    ELSE <<>>]
    /\ log = [p \in Procs |-> <<>>]
    /\ nextID = 1
    /\ refs = {}
    /\ faults = 0
    /\ sinceFault = 0
    /\ store = NoSessions

SpecTexts == InitTexts /\ [][NextRange]_vars

(***************************************************************************)
(* The lease reader, DNSMasqManager.Leases.                                *)
(***************************************************************************)
\* the state in which w1 is about to make the call named k, with the
\* arguments a, in a process whose model is bs
Calling(bs, k, a) ==
    /\ mode = "web"
    /\ cfg = bs
    /\ mu = "free"
    /\ disk = FileOf(Marshal(cfg))
    /\ diskTmp = NoFile
    /\ rulesFile = NoRulesFile
    /\ rulesTmp = NoRulesFile
    /\ table = <<>>
    /\ ipForward = [proc |-> FALSE, sysctl |-> FALSE]
    /\ dnsConf = NoFile
    /\ dnsUnit = [active |-> FALSE, conf |-> <<>>]
    /\ pxNet = PxInitial
    /\ pc = [p \in Procs |-> IF p = "w1" THEN k ELSE "idle"]
    /\ kind = [p \in Procs |-> IF p = "w1" THEN k ELSE "none"]
    /\ arg = [p \in Procs |-> IF p = "w1" THEN <<a>> ELSE <<>>]
    /\ log = [p \in Procs |-> <<>>]
    /\ nextID = 1
    /\ refs = {}
    /\ faults = 0
    /\ sinceFault = 0
    /\ store = NoSessions

\* how many lines the lease files of the model have at most
MaxLeaseLines == 3

\* white space between the fields of a line
Blank(t) == t \in {" ", "\t"}

\* lines of a lease file, each a sequence of words and runs of white space:
\* four fields, five fields (with a client id), blanks at both ends, three
\* fields, an empty line, two fields
LeaseLines ==
    {<<"1700000000", " ", "aa:bb:cc:00:00:01", " ", "10.10.10.50", " ", "vm1">>,
     <<"1700000100", " ", "aa:bb:cc:00:00:02", "\t", "10.10.10.51", " ", "*", " ", "01:aa">>,
     <<" ", "1700000200", " ", "aa:bb:cc:00:00:03", " ", "10.10.20.52", " ", "vm3", " ">>,
     <<"1700000300", " ", "aa:bb:cc:00:00:04", " ", "10.10.10.53">>,
     <<>>,
     <<"duid", " ", "00:01:00:01">>}

\* the lease file: absent, present but not to be opened, or its lines
LeaseFiles ==
    {[exists |-> FALSE, readable |-> FALSE, lines |-> <<>>],
     [exists |-> TRUE, readable |-> FALSE, lines |-> <<>>]}
    \cup {[exists |-> TRUE, readable |-> TRUE, lines |-> ls] :
            ls \in UNION {[1..n -> LeaseLines] : n \in 0..MaxLeaseLines}}

\* strings.Fields: the words of a line
Fields(line) == SelectSeq(line, LAMBDA t : ~Blank(t))

\* a faulty variant of ParseLeaseLine: three fields are enough, the host
\* name is then empty
ParseLeaseLineThree(line) ==
    LET fields == Fields(line) IN
    IF Len(fields) < 3 THEN <<>>
    ELSE <<[Timestamp |-> fields[1], MAC |-> fields[2], IP |-> fields[3],
            Hostname |-> IF Len(fields) < 4 THEN "" ELSE fields[4]]>>

\* the body of the scanner loop: the lease of a line, none for a short line
ParseLeaseLine(line) ==
    LET fields == Fields(line) IN
    IF Len(fields) < 4 THEN <<>>
    ELSE <<[Timestamp |-> fields[1], MAC |-> fields[2], IP |-> fields[3],
            Hostname |-> fields[4]]>>

\* DNSMasqManager.Leases
Leases(file) ==
    IF ~file.exists THEN [leases |-> <<>>, err |-> ""]
    ELSE IF ~file.readable THEN [leases |-> <<>>, err |-> "open"]
    ELSE [leases |-> Flatten([n \in 1..Len(file.lines) |-> ParseLeaseLine(file.lines[n])]),
          err |-> ""]

InitLeases == \E f \in LeaseFiles : Calling(<<>>, "leases", f)

\* the call DNSMasqManager.Leases() and what it returns
ReadLeases(p) ==
    /\ pc[p] = "leases"
    /\ Note(p, Leases(arg[p][1]))
    /\ Goto(p, "return")
    /\ UNCHANGED <<mode, cfg, mu, files, live, pxNet, kind, arg, nextID, refs, faults>>
    /\ UNCHANGED <<sinceFault, store>>

NextLeases ==
    \/ \E p \in Workers : ReadLeases(p)
    \/ \E p \in Workers : Return(p)

SpecLeases == InitLeases /\ [][NextLeases]_vars

(***************************************************************************)
(* The IP-usage view, buildUsedIPs.  Address texts are tuples of numbers   *)
(* as everywhere in the model; the order of two texts is Go's order of     *)
(* strings, taken over the bytes of their dotted-decimal spelling.         *)
(***************************************************************************)
\* how many leases the lease list of the model has at most
MaxLeases == 2

\* the bytes of a number's decimal spelling
Decimal(n) ==
    IF n >= 100 THEN <<48 + (n \div 100), 48 + ((n \div 10) % 10), 48 + (n % 10)>>
    ELSE IF n >= 10 THEN <<48 + (n \div 10), 48 + (n % 10)>>
    ELSE <<48 + n>>

\* the bytes of an address text: the empty text, or a dotted quad
Bytes(ip) ==
    IF ip = <<>> THEN <<>>
    ELSE Decimal(ip[1]) \o <<46>> \o Decimal(ip[2]) \o <<46>> \o Decimal(ip[3])
         \o <<46>> \o Decimal(ip[4])

\* a < b on Go strings
RECURSIVE BytesLess(_, _)
BytesLess(a, b) ==
    IF b = <<>> THEN FALSE
    ELSE IF a = <<>> THEN TRUE
    ELSE IF Head(a) # Head(b) THEN Head(a) < Head(b)
    ELSE BytesLess(Tail(a), Tail(b))

\* IPTextLess on the addresses as numbers instead of their texts
IPTextLessNumeric(a, b) == ~LexLE(b.IP, a.IP, 1)

\* the less function of sort.Slice(ips, ...): ips[i].IP < ips[j].IP
IPTextLess(a, b) == BytesLess(Bytes(a.IP), Bytes(b.IP))

\* the less function of sort.Slice(out, ...): out[i].Bridge < out[j].Bridge,
\* over the names the model has
BridgeLess(a, b) == a.Bridge = "vmbr1" /\ b.Bridge = "vmbr2"

\* the less function handed to sort.Slice, by the key it compares
SliceLess(a, b, key) == IF key = "IP" THEN IPTextLess(a, b) ELSE BridgeLess(a, b)

\* sort.Slice on fewer than twelve elements: insertion sort
Insert(sorted, x, key) ==
    LET after == {k \in 1..Len(sorted) : SliceLess(x, sorted[k], key)}
        at == IF after = {} THEN Len(sorted) + 1
              ELSE CHOOSE k \in after :
                      /\ \A j \in (k + 1)..Len(sorted) : j \in after
                      /\ (k = 1 \/ (k - 1) \notin after)
    IN [k \in 1..(Len(sorted) + 1) |->
          IF k < at THEN sorted[k] ELSE IF k = at THEN x ELSE sorted[k - 1]]

RECURSIVE SortSlice(_, _, _)
SortSlice(s, n, key) ==
    IF n = 0 THEN <<>> ELSE Insert(SortSlice(s, n - 1, key), s[n], key)

UsedIP(ip, source) == [IP |-> ip, Source |-> source]

\* ForwardIPs with a test of Enabled: the targets of enabled forwards only
ForwardIPsEnabled(b) ==
    Flatten([j \in 1..Len(b.Forwards) |->
               IF b.Forwards[j].IntIP = <<>> \/ ~b.Forwards[j].Enabled THEN <<>>
               ELSE <<UsedIP(b.Forwards[j].IntIP, "forward")>>])

\* buildUsedIPs, lines 232-241: the internal forward targets of a bridge
ForwardIPs(b) ==
    Flatten([j \in 1..Len(b.Forwards) |->
               IF b.Forwards[j].IntIP = <<>> THEN <<>>
               ELSE <<UsedIP(b.Forwards[j].IntIP, "forward")>>])

\* buildUsedIPs, lines 223-242: the entry made for a bridge
OwnIPs(b) ==
    (IF b.GatewayIP # <<>> THEN <<UsedIP(b.GatewayIP, "gateway")>> ELSE <<>>)
    \o ForwardIPs(b)

\* net.ParseCIDR(b.Subnet) succeeds and the network contains the IPv4 address
SubnetHolds(b, ip) ==
    /\ ParseCIDROK(b.Subnet)
    /\ IsOctets4(b.Subnet.ip)
    /\ ipInNet(ip, b.Subnet)

\* buildUsedIPs, lines 245-262 and 265-289: what one address adds to the
\* entry filed under the name n, once for each bridge of that name holding it
Matches(bs, n, ip, source) ==
    IF ~parseIPv4OK(ip) THEN <<>>
    ELSE Flatten([i \in 1..Len(bs) |->
                    IF bs[i].Name = n /\ SubnetHolds(bs[i], ip)
                    THEN <<UsedIP(ip, source)>> ELSE <<>>])

\* the addresses of a VM view's NICs, each cut at its "/"
NICAddrs(vm) == [k \in 1..Len(vm.IPs) |-> vm.IPs[k].addr]

\* bridgeBySubnet[n].IPs when the three loops are over: the entry is the one
\* made for the last bridge of that name
Collected(bs, n, leases, vms) ==
    LET last == CHOOSE i \in 1..Len(bs) :
                    bs[i].Name = n /\ \A k \in (i + 1)..Len(bs) : bs[k].Name # n
        nics == Flatten([v \in 1..Len(vms) |-> NICAddrs(vms[v])])
    IN OwnIPs(bs[last])
       \o Flatten([l \in 1..Len(leases) |-> Matches(bs, n, leases[l].IP, "dhcp")])
       \o Flatten([k \in 1..Len(nics) |-> Matches(bs, n, nics[k], "vm")])

\* buildUsedIPs, lines 299-309: empty texts dropped, the first entry of each
\* (source, address) pair kept
Dedupe(ips) ==
    SelectSeq([k \in 1..Len(ips) |-> [at |-> k, u |-> ips[k]]],
              LAMBDA e : e.u.IP # <<>>
                         /\ \A j \in 1..(e.at - 1) : ips[j] # e.u)

\* buildUsedIPs
buildUsedIPs(bs, leases, vms) ==
    LET entry(i) ==
            LET ips == Dedupe(Collected(bs, bs[i].Name, leases, vms))
                kept == [k \in 1..Len(ips) |-> ips[k].u]
            IN [Bridge |-> bs[i].Name, Subnet |-> bs[i].Subnet,
                IPs |-> SortSlice(kept, Len(kept), "IP")]
        out == [i \in 1..Len(bs) |-> entry(i)]
    IN SortSlice(out, Len(out), "Bridge")

\* the models the view is built from
UsedForwards ==
    {<<>>,
     <<PortForward(1, "tcp", 2222, <<10, 10, 10, 101>>, 22, "ssh")>>,
     <<Off(PortForward(1, "tcp", 80, <<10, 10, 10, 102>>, 80, ""))>>,
     <<PortForward(1, "tcp", 22, <<10, 10, 10, 2>>, 22, ""),
       Off(PortForward(2, "udp", 53, <<10, 10, 10, 101>>, 53, ""))>>,
     <<PortForward(1, "tcp", 80, <<10, 10, 10, 101>>, 80, ""),
       PortForward(2, "tcp", 443, <<10, 10, 10, 101>>, 443, "")>>}

UsedModels ==
    LET first(fw) == [BridgeConfig("vmbr1", Net10, <<10, 10, 10, 1>>, TRUE, <<>>)
                          EXCEPT !.Forwards = fw]
        second == BridgeConfig("vmbr2", Net20, <<10, 10, 20, 1>>, FALSE, <<>>)
    IN {<<first(fw)>> : fw \in UsedForwards}
       \cup {<<first(fw), second>> : fw \in UsedForwards}
       \cup {<<second, first(fw)>> : fw \in UsedForwards}

\* leases as the reader returns them: address and hardware address
UsedLeases ==
    {[IP |-> <<10, 10, 10, 50>>, MAC |-> "aa:bb:cc:00:00:01"],
     [IP |-> <<10, 10, 20, 60>>, MAC |-> "aa:bb:cc:00:00:02"],
     [IP |-> <<10, 10, 10, 101>>, MAC |-> "aa:bb:cc:00:00:03"],
     [IP |-> <<192, 168, 1, 9>>, MAC |-> "aa:bb:cc:00:00:04"],
     [IP |-> <<>>, MAC |-> "aa:bb:cc:00:00:05"]}

\* VM views: none, a NIC with a lease's address, a static "ip=" of a
\* container with its prefix length, an address of no managed subnet
UsedVMs ==
    {<<>>,
     <<[VMID |-> 100, IPs |-> <<[addr |-> <<10, 10, 10, 50>>, prefix |-> ""]>>]>>,
     <<[VMID |-> 101, IPs |-> <<[addr |-> <<10, 10, 10, 7>>, prefix |-> "/24"]>>]>>,
     <<[VMID |-> 102, IPs |-> <<[addr |-> <<10, 10, 30, 1>>, prefix |-> "/24"]>>]>>}

InitUsed ==
    \E bs \in UsedModels, vms \in UsedVMs :
        \E ls \in UNION {[1..n -> UsedLeases] : n \in 0..MaxLeases} :
            Calling(bs, "used", [leases |-> ls, vms |-> vms])

\* the call buildUsedIPs(app.cfg, leases, vmViews) and the view it returns
BuildUsed(p) ==
    /\ pc[p] = "used"
    /\ Note(p, buildUsedIPs(cfg, arg[p][1].leases, arg[p][1].vms))
    /\ Goto(p, "return")
    /\ UNCHANGED <<mode, cfg, mu, files, live, pxNet, kind, arg, nextID, refs, faults>>
    /\ UNCHANGED <<sinceFault, store>>

NextUsed ==
    \/ \E p \in Workers : BuildUsed(p)
    \/ \E p \in Workers : Return(p)

SpecUsed == InitUsed /\ [][NextUsed]_vars

(***************************************************************************)
(* Sessions and routing.  A token is a number, Create draws an unused one  *)
(* (32 bytes of crypto/rand); 0 is a value no Create returned.  The clock  *)
(* counts ticks and never goes back: time.Now() carries the monotonic      *)
(* reading that After compares.  store.issued and store.deleted record the *)
(* calls made, the code does not keep them.                                *)
(***************************************************************************)
\* how many sessions the model creates and how far its clock runs
MaxTokens == 2
MaxTime == 3

\* sessionMaxAge, in ticks
sessionMaxAge == 2

Tokens == 0..MaxTokens

\* s.sessions[token]
SessionsOf(st, token) == {s \in st.sessions : s.token = token}

\* SessionStore.Create
Create(st) ==
    LET s == [token |-> Cardinality(st.issued) + 1,
              ExpiresAt |-> st.now + sessionMaxAge]
    IN [st EXCEPT !.sessions = @ \cup {s}, !.issued = @ \cup {s}]

\* Validate without the test of ExpiresAt
ValidateNoExpiry(st, token) ==
    [ok |-> SessionsOf(st, token) # {}, store |-> st]

\* SessionStore.Validate: the verdict and the store it leaves
Validate(st, token) ==
    LET found == SessionsOf(st, token)
    IN IF found = {} THEN [ok |-> FALSE, store |-> st]
       ELSE IF \E s \in found : st.now > s.ExpiresAt
            THEN [ok |-> FALSE,
                  store |-> [st EXCEPT !.sessions = @ \ found]]
            ELSE [ok |-> TRUE, store |-> st]

\* SessionStore.Delete
Delete(st, token) ==
    [st EXCEPT !.sessions = @ \ SessionsOf(st, token),
               !.deleted = @ \cup {token}]

\* one round of cleanLoop
cleanLoop(st) ==
    [st EXCEPT !.sessions = {s \in @ : ~(st.now > s.ExpiresAt)}]

StaticPaths == {"/static/app.js"}
Paths == {"/login", "/", "/logout", "/nat/toggle", "/api/vms", "/login/x"}
             \cup StaticPaths
Methods == {"GET", "POST"}

\* SetupRoutes with /api/vms registered beside the authenticated pattern
PatternApiOpen(path) ==
    IF path = "/login" THEN "/login"
    ELSE IF path \in StaticPaths THEN "/static/"
    ELSE IF path = "/api/vms" THEN "/api/vms"
    ELSE "/"

\* SetupRoutes: the pattern of the mux that serves a path
Pattern(path) ==
    IF path = "/login" THEN "/login"
    ELSE IF path \in StaticPaths THEN "/static/"
    ELSE "/"

\* the route dispatch inside the authenticated pattern
Dispatch(path, method) ==
    IF path = "/" /\ method = "GET" THEN "HandleDashboard"
    ELSE IF path = "/logout" /\ method = "POST" THEN "HandleLogout"
    ELSE IF path = "/nat/toggle" /\ method = "POST" THEN "HandleNATToggle"
    ELSE IF path = "/api/vms" /\ method = "GET" THEN "HandleAPIVMs"
    ELSE "NotFound"

\* the cookies a request can carry: none, a forged one, any issued one
Cookies == {<<>>} \cup {<<t>> : t \in {0} \cup {s.token : s \in store.issued}}

InitSessions == Calling(<<>>, "idle", <<>>)

\* a request reaches the mux, which picks the pattern's handler
Arrive(p) ==
    /\ pc[p] = "idle"
    /\ \E path \in Paths, method \in Methods, cookie \in Cookies :
        /\ arg' = [arg EXCEPT ![p] =
               <<[path |-> path, method |-> method, cookie |-> cookie]>>]
        /\ Goto(p, CASE Pattern(path) = "/login" -> "login"
                     [] Pattern(path) = "/static/" -> "static"
                     [] Pattern(path) = "/" -> "auth"
                     [] OTHER -> "next")
    /\ kind' = [kind EXCEPT ![p] = "request"]
    /\ log' = [log EXCEPT ![p] = <<>>]
    /\ UNCHANGED <<mode, cfg, mu, files, live, pxNet, nextID, refs, faults>>
    /\ UNCHANGED <<sinceFault, store>>

\* requireAuth
RequireAuth(p) ==
    /\ pc[p] = "auth"
    /\ LET cookie == arg[p][1].cookie
           v == Validate(store, cookie[1])
       IN IF cookie = <<>>
          THEN Note(p, "redirect") /\ Goto(p, "respond") /\ UNCHANGED store
          ELSE /\ store' = v.store
               /\ IF v.ok THEN Note(p, "next") /\ Goto(p, "next")
                  ELSE Note(p, "redirect") /\ Goto(p, "respond")
    /\ UNCHANGED <<mode, cfg, mu, files, live, pxNet, kind, arg, nextID, refs, faults>>
    /\ UNCHANGED sinceFault

\* the dispatched handler runs; HandleLogout deletes the cookie's session
RunHandler(p) ==
    /\ pc[p] = "next"
    /\ LET r == arg[p][1]
           h == Dispatch(r.path, r.method)
       IN /\ Note(p, h)
          /\ store' = IF h = "HandleLogout" /\ r.cookie # <<>>
                      THEN Delete(store, r.cookie[1]) ELSE store
    /\ Goto(p, "respond")
    /\ UNCHANGED <<mode, cfg, mu, files, live, pxNet, kind, arg, nextID, refs, faults>>
    /\ UNCHANGED sinceFault

\* /login: the form, or HandleLoginSubmit with the credentials' verdict
Login(p) ==
    /\ pc[p] = "login"
    /\ \/ /\ arg[p][1].method = "GET"
          /\ Note(p, "HandleLoginPage")
          /\ UNCHANGED store
       \/ /\ arg[p][1].method = "POST"
          /\ \/ Note(p, "Invalid credentials") /\ UNCHANGED store
             \/ Note(p, "Session error") /\ UNCHANGED store
             \/ /\ Cardinality(store.issued) < MaxTokens
                /\ store' = Create(store)
                /\ Note(p, "HandleLoginSubmit")
    /\ Goto(p, "respond")
    /\ UNCHANGED <<mode, cfg, mu, files, live, pxNet, kind, arg, nextID, refs, faults>>
    /\ UNCHANGED sinceFault

\* the file server of /static/
Static(p) ==
    /\ pc[p] = "static"
    /\ Note(p, "FileServer")
    /\ Goto(p, "respond")
    /\ UNCHANGED <<mode, cfg, mu, files, live, pxNet, kind, arg, nextID, refs, faults>>
    /\ UNCHANGED <<sinceFault, store>>

\* the response is written, the goroutine ends
Respond(p) ==
    /\ pc[p] = "respond"
    /\ Goto(p, "idle")
    /\ kind' = [kind EXCEPT ![p] = "none"]
    /\ arg' = [arg EXCEPT ![p] = <<>>]
    /\ log' = [log EXCEPT ![p] = <<>>]
    /\ UNCHANGED <<mode, cfg, mu, files, live, pxNet, nextID, refs, faults>>
    /\ UNCHANGED <<sinceFault, store>>

\* time passes
Tick ==
    /\ store.now < MaxTime
    /\ store' = [store EXCEPT !.now = @ + 1]
    /\ UNCHANGED <<mode, cfg, mu, files, live, pxNet, pc, kind, arg, log, nextID, refs, faults>>
    /\ UNCHANGED sinceFault

\* the ticker of cleanLoop fires
Clean ==
    /\ store' = cleanLoop(store)
    /\ UNCHANGED <<mode, cfg, mu, files, live, pxNet, pc, kind, arg, log, nextID, refs, faults>>
    /\ UNCHANGED sinceFault

NextSessions ==
    \/ \E p \in RaceWorkers : Arrive(p)
    \/ \E p \in RaceWorkers : RequireAuth(p)
    \/ \E p \in RaceWorkers : RunHandler(p)
    \/ \E p \in RaceWorkers : Login(p)
    \/ \E p \in RaceWorkers : Static(p)
    \/ \E p \in RaceWorkers : Respond(p)
    \/ Tick
    \/ Clean

SpecSessions == InitSessions /\ [][NextSessions]_vars

(***************************************************************************)
(* Config.DeleteForward and Config.FindForward on the models LoadConfig    *)
(* accepts.  validate() does not look at the forwards' IDs, so a file may  *)
(* give one ID to two forwards, of one bridge or of two.                   *)
(***************************************************************************)
\* the forwards of a bridge in such a file: up to two, IDs 1 and 2
DeleteForwards(base) ==
    LET fw(id, k) == PortForward(id, "tcp", base + k, <<10, 10, 10, 101>>, 22, "")
    IN {<<>>} \cup {<<fw(a, 1)>> : a \in 1..2}
       \cup {<<fw(a, 1), fw(b, 2)>> : a \in 1..2, b \in 1..2}
       \cup {<<fw(1, 1), fw(2, 2), fw(1, 3)>>}

DeleteModels ==
    LET first(fw) == [BridgeConfig("vmbr1", Net10, <<10, 10, 10, 1>>, TRUE, <<>>)
                          EXCEPT !.Forwards = fw]
        second(fw) == [BridgeConfig("vmbr2", Net20, <<10, 10, 20, 1>>, FALSE, <<>>)
                          EXCEPT !.Forwards = fw]
    IN {<<first(fw)>> : fw \in DeleteForwards(2000)}
       \cup {<<first(fw), second(gw)>> :
                fw \in DeleteForwards(2000), gw \in DeleteForwards(3000)}

InitDelete ==
    \E bs \in {m \in DeleteModels : validate(m)}, id \in 1..3 :
        Calling(bs, "delete", [id |-> id, before |-> bs])

\* the call c.DeleteForward(id): the model changes, the verdict is noted
DeleteCall(p) ==
    /\ pc[p] = "delete"
    /\ cfg' = DeleteForward(cfg, arg[p][1].id).Bridges
    /\ Note(p, DeleteForward(cfg, arg[p][1].id).found)
    /\ Goto(p, "find")
    /\ UNCHANGED <<mode, mu, files, live, pxNet, kind, arg, nextID, refs, faults>>
    /\ UNCHANGED <<sinceFault, store>>

\* the call c.FindForward(id) that follows: the place it returns is noted
FindCall(p) ==
    /\ pc[p] = "find"
    /\ Note(p, FindForward(cfg, arg[p][1].id))
    /\ Goto(p, "return")
    /\ UNCHANGED <<mode, cfg, mu, files, live, pxNet, kind, arg, nextID, refs, faults>>
    /\ UNCHANGED <<sinceFault, store>>

NextDelete ==
    \/ \E p \in Workers : DeleteCall(p)
    \/ \E p \in Workers : FindCall(p)
    \/ \E p \in Workers : Return(p)

SpecDelete == InitDelete /\ [][NextDelete]_vars

(***************************************************************************)
(* Vocabulary of the properties.                                           *)
(***************************************************************************)
\* every forward of a model, bridge after bridge
AllForwards(bs) == Flatten([i \in 1..Len(bs) |-> bs[i].Forwards])

\* two forwards claim the same external port for a common protocol
Collide(f, g) ==
    /\ f.ExtPort = g.ExtPort
    /\ Range(Protocols(f)) \cap Range(Protocols(g)) # {}

\* two enabled forwards of the model collide
EnabledCollision(bs) ==
    \E a \in 1..Len(AllForwards(bs)) : \E b \in 1..Len(AllForwards(bs)) :
        /\ a < b
        /\ AllForwards(bs)[a].Enabled /\ AllForwards(bs)[b].Enabled
        /\ Collide(AllForwards(bs)[a], AllForwards(bs)[b])

\* the request of p has changed the model in memory
Changed(p) == "mutate" \in Range(log[p])

Logged(p, entry) == entry \in Range(log[p])

\* the last thing the request of p has done
Last(p) == IF log[p] = <<>> THEN "" ELSE log[p][Len(log[p])]

\* the steps of a request, outcomes left aside
StepOf(entry) ==
    IF entry \in {"save_ok", "save_err"} THEN "persist"
    ELSE IF entry \in {"nft_ok", "nft_err"} THEN "nat"
    ELSE IF entry \in {"dns_ok", "dns_err"} THEN "dhcp"
    ELSE entry

Steps(p) == [n \in 1..Len(log[p]) |-> StepOf(log[p][n])]

\* the model has nothing for the firewall: no NAT bridge, no enabled forward
NothingToTranslate(bs) ==
    \A i \in 1..Len(bs) :
        /\ ~bs[i].NATEnabled
        /\ \A j \in 1..Len(bs[i].Forwards) : ~bs[i].Forwards[j].Enabled

\* program positions inside Config.Save, NFTManager.Apply, DNSMasqManager.Apply
SavePcs == {"save", "save_rename"}
NftPcs == {"nft", "nft_remove", "nft_write", "nft_rename", "nft_load"}
DnsPcs == {"dns", "dns_restart"}

(***************************************************************************)
(* Properties.                                                             *)
(***************************************************************************)
\* C1, for the web service's create / toggle / delete handlers: in every
\* reachable state no two enabled forwards share an external port unless
\* their protocol sets are disjoint (tcp and udp may share a port; tcp+udp
\* collides with tcp, with udp and with tcp+udp).
C1_NoEnabledCollision == mode = "web" => ~EnabledCollision(cfg)

\* C2: for every operator mutation the lock is held without interruption
\* from the change in memory until the request is over (through Save and
\* the reconciler calls).
C2_LockHeldFromChange ==
    \A p \in Procs : (Changed(p) /\ pc[p] # "idle") => mu = p

ApplyRuns ==
    {<<"mutate", "save_err">>,
     <<"mutate", "save_ok", "nft_err">>,
     <<"mutate", "save_ok", "nft_ok", "dns_err">>,
     <<"mutate", "save_ok", "nft_ok", "dns_ok">>}

C4_SaveFailureAborts ==
    \A p \in Procs :
        (pc[p] = "unlock" /\ Logged(p, "save_err")) =>
            /\ LoadConfig(disk).ok /\ LoadConfig(disk).Bridges = cfg
            /\ log[p] = <<"mutate", "save_err">>

\* C5: Config.Save is atomic for the canonical file: every step of Save
\* leaves at the canonical path the complete previous serialization or the
\* complete new one; when Save has returned nil the file is the new
\* serialization; when the write of the sibling file or the rename fails,
\* the canonical file is the one it was.
C5_SaveAtomic ==
    [][\A p \in Procs :
          pc[p] \in SavePcs =>
              /\ disk' \in {disk, FileOf(Marshal(cfg))}
              /\ Last(p)' = "save_ok" => disk' = FileOf(Marshal(cfg))
              /\ Last(p)' = "save_err" => disk' = disk]_vars

\* a Save has failed: the canonical file is still the complete earlier
\* serialization, which is not that of the model in memory
C5_Witness ==
    \E p \in Procs :
        /\ Last(p) = "save_err"
        /\ disk.exists /\ disk.complete
        /\ disk # FileOf(Marshal(cfg))

\* the request of p has persisted its change and a reconciler has failed
FailedAfterPersist(p) ==
    /\ Logged(p, "save_ok")
    /\ Logged(p, "nft_err") \/ Logged(p, "dns_err")

\* C6: when a reconciler fails after the change was persisted, nothing is
\* rolled back: from the failure to the end of the request the model in
\* memory is the changed one and the canonical file is its serialization;
\* the failing reconciler step itself leaves the live table, or the
\* configuration dnsmasq runs with, as it was.
C6_NoRollback ==
    [][\A p \in Procs :
          /\ (Logged(p, "save_ok") /\ Last(p)' = "nft_err" /\ Last(p) # "nft_err")
                => (cfg' = cfg /\ disk' = disk /\ table' = table)
          /\ (Logged(p, "save_ok") /\ Last(p)' = "dns_err" /\ Last(p) # "dns_err")
                => (cfg' = cfg /\ disk' = disk /\ dnsUnit'.conf = dnsUnit.conf)
          /\ FailedAfterPersist(p)
                => (cfg' = cfg /\ disk' = disk /\ disk = FileOf(Marshal(cfg)))]_vars

\* a forward was created and persisted, the load of the ruleset failed: the
\* request is over with the forward in memory and in the file, and the live
\* table without it
C6_Witness ==
    \E p \in Procs :
        /\ pc[p] = "unlock" /\ kind[p] = "fwd_create"
        /\ log[p] = <<"mutate", "save_ok", "nft_err">>
        /\ Len(AllForwards(cfg)) > 0
        /\ disk = FileOf(Marshal(cfg))
        /\ rulesFile = FileOf(generateRuleset(cfg))
        /\ table # TableOf(cfg)

\* C7: whenever NFTManager.Apply has returned nil, the live table is the
\* declared state: exactly the rules compiled from the model when it has a
\* NAT bridge or an enabled forward, absent otherwise.
C7_ApplyMakesDeclared ==
    \A p \in Procs : Last(p) = "nft_ok" => table = TableOf(cfg)

\* Apply has returned nil for a model with one enabled forward, one disabled
\* forward and NAT: the table holds the one DNAT rule and the one
\* masquerade rule
C7_Witness ==
    \E p \in Procs :
        /\ Last(p) = "nft_ok"
        /\ Len(AllForwards(cfg)) = 2
        /\ table # <<>>
        /\ Len(table[1].prerouting) = 1
        /\ Len(table[1].postrouting) = 1

\* C8: for a model with no NAT bridge and no enabled forward, Apply goes to
\* the removal of the table: it never reaches the write of the ruleset
\* file, its rename or the load, and leaves the ruleset file and its
\* temporary sibling as they were.
C8_NothingToTranslateRemoves ==
    [][\A p \in Procs :
          (pc[p] \in NftPcs /\ NothingToTranslate(cfg)) =>
              /\ pc[p] \in {"nft", "nft_remove"}
              /\ pc[p] = "nft" => pc'[p] = "nft_remove"
              /\ pc'[p] \notin {"nft_write", "nft_rename", "nft_load"}
              /\ rulesFile' = rulesFile /\ rulesTmp' = rulesTmp
              /\ pc[p] = "nft_remove" => table' \in {table, <<>>}]_vars

\* Apply has removed the table for a model whose only forward is disabled;
\* the ruleset file written for an earlier model is still there
C8_Witness ==
    \E p \in Procs :
        /\ Last(p) = "nft_ok"
        /\ Len(AllForwards(cfg)) = 1 /\ ~AllForwards(cfg)[1].Enabled
        /\ NothingToTranslate(cfg)
        /\ table = <<>>
        /\ rulesFile.exists /\ Len(rulesFile.data.prerouting) = 1

\* the forwards a step adds to the model
Added(old, new) ==
    {n \in 1..Len(AllForwards(new)) :
        \A o \in 1..Len(AllForwards(old)) : AllForwards(old)[o].ID # AllForwards(new)[n].ID}

\* C9: no forward is ever created that collides with an enabled forward of
\* the model (same external port, overlapping protocols): such a creation
\* is rejected and the model left as it was.
C9_CollidingCreationRejected ==
    [][\A n \in Added(cfg, cfg') : \A o \in 1..Len(AllForwards(cfg)) :
          AllForwards(cfg)[o].Enabled => ~Collide(AllForwards(cfg)[o], AllForwards(cfg')[n])]_vars

\* C10: a rejected request has changed nothing and has run nothing: the
\* step that rejects it and the steps that follow leave the model in
\* memory, every file and the live firewall/DHCP state as they were, and
\* the request ends having done nothing but the rejection.
C10_RejectionChangesNothing ==
    [][\A p \in Procs :
          (Logged(p, "reject") \/ Logged(p, "reject")') =>
              /\ cfg' = cfg
              /\ files' = files
              /\ live' = live
              /\ log'[p] \in {<<"reject">>, <<>>}
              /\ pc'[p] \in {"return", "unlock", "idle"}]_vars

\* a DHCP edit with a range that includes the gateway, or is inverted, or
\* has a bad DNS address, was rejected under the lock on a bridge that has
\* a pool already
C10_Witness ==
    \E p \in Procs :
        /\ pc[p] = "unlock" /\ kind[p] = "dhcp_save" /\ mu = p
        /\ log[p] = <<"reject">>
        /\ Len(cfg) = 1 /\ cfg[1].DHCP # <<>>

\* C11: in every reachable state every bridge that has a DHCP pool has a
\* pool that passes range validation against that bridge (start and end are
\* IPv4, both inside the bridge subnet, start <= end, gateway outside
\* [start, end]), whichever handler stored the pool.
C11_PoolsPassValidation ==
    \A i \in 1..Len(cfg) :
        cfg[i].DHCP # <<>> =>
            validateDHCPRange(cfg[i].Subnet, cfg[i].GatewayIP,
                              cfg[i].DHCP[1].RangeStart, cfg[i].DHCP[1].RangeEnd) = ""

\* C12: in every reachable state every forward's internal address is an
\* IPv4 address inside the subnet of the bridge that owns the forward.
C12_InternalAddressInSubnet ==
    \A i \in 1..Len(cfg) : \A j \in 1..Len(cfg[i].Forwards) :
        /\ IsOctets4(cfg[i].Forwards[j].IntIP)
        /\ ipInNet(cfg[i].Forwards[j].IntIP, cfg[i].Subnet)

\* C14: every file Save has put at the canonical path is accepted by
\* LoadConfig (validate() passes on it): no forward with port 0, nothing
\* else that makes the next load fail.
C14_SavedFileLoads ==
    (disk.exists /\ disk.complete) => LoadConfig(disk).ok

\* C13: bridge names are a unique key: in every reachable state, concurrent
\* bridge create and attach requests for one name included, the model never
\* holds two bridges with the same name.
C13_BridgeNamesUnique ==
    \A i \in 1..Len(cfg) : \A j \in 1..Len(cfg) :
        i # j => cfg[i].Name # cfg[j].Name

\* the step by which HandleBridgeDetach takes the bridge out of the model
DetachStep(p) ==
    pc[p] = "idle" /\ kind'[p] = "bridge_detach" /\ pc'[p] = "save"

\* a detach that went through: saved, both reconcilers returned nil
Detached(p) ==
    /\ kind[p] = "bridge_detach" /\ pc[p] = "unlock"
    /\ log[p] = <<"mutate", "save_ok", "nft_ok", "dns_ok">>

\* C16: the detach of bridge B takes B out of the model in memory and sends
\* nothing to the inventory; when the detach has gone through, the file is
\* the model without B, the live table is the one compiled from it (no
\* masquerade or DNAT rule of B) and the DHCP service runs the configuration
\* compiled from it (no stanza of B), or is stopped when no pool is left.
C16_DetachRemovesBridge ==
    /\ [][\A p \in Procs :
            DetachStep(p) =>
                /\ \E i \in 1..Len(cfg) :
                      cfg' = RemoveAt(cfg, i) /\ cfg[i].Name \notin NamesOf(cfg')
                /\ pxNet' = pxNet]_vars
    /\ [](\A p \in Procs :
            Detached(p) =>
                /\ LoadConfig(disk).ok /\ LoadConfig(disk).Bridges = cfg
                /\ table = TableOf(cfg)
                /\ IF hasDHCP(cfg)
                   THEN dnsUnit.active /\ dnsUnit.conf = generateConfig(cfg)
                   ELSE ~dnsUnit.active)

\* C15: a model LoadConfig has accepted has, for every bridge, a name that
\* is a valid interface identifier, a subnet that is an IPv4 CIDR, and a
\* gateway that is an IPv4 address inside that subnet.
C15_LoadedModelIsValid ==
    \A p \in Procs :
        Logged(p, "load_ok") =>
            \A i \in 1..Len(cfg) :
                /\ IfaceNameOK(cfg[i].Name)
                /\ parseCIDRv4OK(cfg[i].Subnet)
                /\ parseIPv4OK(cfg[i].GatewayIP)
                /\ ipInNet(cfg[i].GatewayIP, cfg[i].Subnet)

\* how many lines of a chain are the rule r
Count(chain, r) == Cardinality({k \in 1..Len(chain) : chain[k] = r})

\* the forwards of a model, by place
Places(bs) ==
    {q \in (1..Len(bs)) \X (1..MaxForwards + 1) : q[2] <= Len(bs[q[1]].Forwards)}

\* the DNAT rule the spec asks for a forward and one protocol
DnatRule(f, proto) ==
    [iifname |-> WanInterface, proto |-> proto, dport |-> f.ExtPort,
     to_ip |-> f.IntIP, to_port |-> f.IntPort, comment |-> f.Comment]

\* the protocols the spec asks rules for: one for tcp or udp, both for tcp+udp
Wanted(f) == IF f.Protocol = "tcp+udp" THEN {"tcp", "udp"} ELSE {f.Protocol}

\* how many (enabled forward, protocol) pairs of the model ask for the rule r
Asked(bs, r) ==
    Cardinality({t \in Places(bs) \X {"tcp", "udp"} :
        LET f == bs[t[1][1]].Forwards[t[1][2]] IN
        f.Enabled /\ t[2] \in Wanted(f) /\ DnatRule(f, t[2]) = r})

\* the ruleset text NFTManager.Apply has just written
Compiled(p) == pc[p] = "nft_rename" /\ rulesTmp.complete

\* C17: the prerouting chain of a compiled ruleset holds one DNAT rule for
\* every enabled tcp or udp forward and two (tcp and udp, otherwise the
\* same) for every enabled tcp+udp forward, each on the external interface
\* and the forward's external port towards its internal address and port,
\* and nothing else: a disabled forward gives no rule.
C17_OneDnatRulePerForwardProtocol ==
    \A p \in Procs :
        Compiled(p) =>
            LET chain == rulesTmp.data.prerouting IN
            /\ \A k \in 1..Len(chain) : Count(chain, chain[k]) = Asked(cfg, chain[k])
            /\ \A q \in Places(cfg) : \A proto \in {"tcp", "udp"} :
                  LET r == DnatRule(cfg[q[1]].Forwards[q[2]], proto) IN
                  Count(chain, r) = Asked(cfg, r)

\* a ruleset compiled from a model with an enabled tcp+udp forward next to
\* a disabled forward
C17_Witness ==
    \E p \in Procs :
        /\ Compiled(p)
        /\ \E q \in Places(cfg) :
              cfg[q[1]].Forwards[q[2]].Enabled /\ cfg[q[1]].Forwards[q[2]].Protocol = "tcp+udp"
        /\ \E q \in Places(cfg) : ~cfg[q[1]].Forwards[q[2]].Enabled
        /\ Len(rulesTmp.data.prerouting) = 2

\* the masquerade rule the spec asks for a bridge
MasqRule(b) == [oifname |-> WanInterface, saddr |-> b.Subnet]

\* how many NAT-enabled bridges of the model ask for the rule r
AskedMasq(bs, r) ==
    Cardinality({i \in 1..Len(bs) : bs[i].NATEnabled /\ MasqRule(bs[i]) = r})

\* C18: the postrouting chain of a compiled ruleset holds one masquerade
\* rule for every NAT-enabled bridge, with that bridge's subnet as source
\* and the external interface as outgoing interface, and nothing else: a
\* bridge with NAT disabled gives no rule.
C18_OneMasqueradePerNatBridge ==
    \A p \in Procs :
        Compiled(p) =>
            LET chain == rulesTmp.data.postrouting IN
            /\ \A k \in 1..Len(chain) : Count(chain, chain[k]) = AskedMasq(cfg, chain[k])
            /\ \A i \in 1..Len(cfg) :
                  Count(chain, MasqRule(cfg[i])) = AskedMasq(cfg, MasqRule(cfg[i]))

\* a ruleset compiled from a model with one NAT-enabled bridge and one
\* bridge with NAT disabled
C18_Witness ==
    \E p \in Procs :
        /\ Compiled(p)
        /\ \E i \in 1..Len(cfg) : cfg[i].NATEnabled
        /\ \E i \in 1..Len(cfg) : ~cfg[i].NATEnabled
        /\ Len(rulesTmp.data.postrouting) = 1

Hi(ip) == ip[1] * 256 + ip[2]
Lo(ip) == ip[3] * 256 + ip[4]
U32LE(a, b) == Hi(a) < Hi(b) \/ (Hi(a) = Hi(b) /\ Lo(a) <= Lo(b))

\* x has the first c.ones bits of c.ip
Within(x, c) ==
    IF c.ones >= 16
    THEN /\ Hi(x) = Hi(c.ip)
         /\ Lo(x) \div Pow2(32 - c.ones) = Lo(c.ip) \div Pow2(32 - c.ones)
    ELSE Hi(x) \div Pow2(16 - c.ones) = Hi(c.ip) \div Pow2(16 - c.ones)

\* C20: for a valid IPv4 subnet, gateway, start and end, validateDHCPRange
\* succeeds if and only if start <= end in unsigned 32-bit order, start and
\* end both lie inside the subnet, and the gateway is not in [start, end].
C20_RangeAcceptedIff ==
    \A p \in Procs :
        (kind[p] = "range" /\ pc[p] = "return") =>
            LET a == arg[p][1] IN
            (log[p] = <<"">>) <=>
                /\ U32LE(a.start, a.end)
                /\ Within(a.start, a.subnet) /\ Within(a.end, a.subnet)
                /\ ~(U32LE(a.start, a.gateway) /\ U32LE(a.gateway, a.end))

\* a range from 10.x to 192.x in 0.0.0.0/0 has been accepted
C20_Witness ==
    \E p \in Procs :
        /\ kind[p] = "range" /\ pc[p] = "return" /\ log[p] = <<"">>
        /\ arg[p][1].subnet.ones = 0
        /\ arg[p][1].start[1] = 10 /\ arg[p][1].end[1] = 192

\* the first failure in the order SubnetInvalid, AddressInvalid,
\* RangeOutsideSubnet, RangeInverted, RangeIncludesGateway; "" when none
FirstFailure(a) ==
    IF ~(Len(a.subnet.ip) = 4 /\ a.subnet.ones \in 0..32) THEN "SubnetInvalid"
    ELSE IF \E t \in {a.gateway, a.start, a.end} : Len(t) # 4 THEN "AddressInvalid"
    ELSE IF ~Within(a.start, a.subnet) \/ ~Within(a.end, a.subnet)
         THEN "RangeOutsideSubnet"
    ELSE IF ~U32LE(a.start, a.end) THEN "RangeInverted"
    ELSE IF U32LE(a.start, a.gateway) /\ U32LE(a.gateway, a.end)
         THEN "RangeIncludesGateway"
    ELSE ""

\* C21: validateDHCPRange reports the first failure in the order
\* SubnetInvalid, AddressInvalid, RangeOutsideSubnet, RangeInverted,
\* RangeIncludesGateway; an unparsable gateway, start or end is reported as
\* AddressInvalid before any range check.
C21_FirstFailureReported ==
    \A p \in Procs :
        (kind[p] = "range" /\ pc[p] = "return") =>
            log[p] = <<FirstFailure(arg[p][1])>>

\* the step p takes from position at
Leaves(p, at) == pc[p] = at /\ pc'[p] # at

\* C22: DNSMasqManager.Apply with no pool in the model stops the unit and
\* leaves the config file alone; with a pool it first writes the compiled
\* config to dnsmasq.conf and only then restarts the unit, which comes up
\* on the file just written; a failed restart fails the call and the error
\* carries the daemon's output.
C22_DnsApplyOrder ==
    [][\A p \in Procs :
        /\ (Leaves(p, "dns") /\ ~hasDHCP(cfg)) =>
              /\ dnsConf' = dnsConf
              /\ pc'[p] # "dns_restart"
              /\ Last(p)' \in {"dns_ok", "dns_err"}
              /\ (Last(p)' = "dns_ok") => ~dnsUnit'.active
        /\ (Leaves(p, "dns") /\ hasDHCP(cfg)) =>
              /\ dnsUnit' = dnsUnit
              /\ IF pc'[p] = "dns_restart"
                 THEN dnsConf' = FileOf(generateConfig(cfg)) /\ log' = log
                 ELSE Last(p)' = "dns_err"
        /\ Leaves(p, "dns_restart") =>
              /\ dnsConf' = dnsConf
              /\ dnsConf = FileOf(generateConfig(cfg))
              /\ Last(p)' \in {"dns_ok", "dns_err"}
              /\ (Last(p)' = "dns_ok") =>
                    dnsUnit' = [active |-> TRUE, conf |-> generateConfig(cfg)]
        /\ \A out \in RestartOutputs :
              /\ RestartErr(1, out) # <<>>
              /\ out \in Range(RestartErr(1, out))]_vars

\* a stopped unit has been restarted on a freshly written config
C22_Witness ==
    \E p \in Procs :
        /\ Last(p) = "dns_ok" /\ hasDHCP(cfg)
        /\ dnsUnit = [active |-> TRUE, conf |-> generateConfig(cfg)]
        /\ dnsConf = FileOf(generateConfig(cfg))

\* the places of the model's bridges that have a pool, in the model's order
RECURSIVE PoolPlaces(_, _)
PoolPlaces(bs, i) ==
    IF i > Len(bs) THEN <<>>
    ELSE IF bs[i].DHCP # <<>> THEN <<i>> \o PoolPlaces(bs, i + 1)
    ELSE PoolPlaces(bs, i + 1)

\* the compiled text is in dnsmasq.conf and the daemon is about to restart
ConfigCompiled(p) == pc[p] = "dns_restart" /\ dnsConf.complete

\* C23: the compiled DHCP config holds one stanza for each bridge that has a
\* pool, in the model's order, with the bridge's interface, its range and
\* lease time, its gateway, and a DNS option exactly when a DNS server is
\* set; a bridge without a pool gets no stanza.
C23_OneStanzaPerPool ==
    \A p \in Procs :
        ConfigCompiled(p) =>
            LET text == dnsConf.data
                at == PoolPlaces(cfg, 1)
            IN /\ Len(text) = Len(at)
               /\ \A k \in 1..Len(at) :
                     LET b == cfg[at[k]]
                         d == b.DHCP[1]
                     IN /\ text[k].interface = b.Name
                        /\ text[k].range_start = d.RangeStart
                        /\ text[k].range_end = d.RangeEnd
                        /\ text[k].lease # ""
                        /\ (d.LeaseTime # "") => text[k].lease = d.LeaseTime
                        /\ text[k].gateway = b.GatewayIP
                        /\ (text[k].dns = <<>>) <=> (d.DNS1 = <<>> /\ d.DNS2 = <<>>)
                        /\ \A a \in {d.DNS1, d.DNS2} \ {<<>>} : a \in Range(text[k].dns)
               /\ \A i \in 1..Len(cfg) :
                     (\A j \in 1..Len(cfg) : cfg[j].Name = cfg[i].Name => cfg[j].DHCP = <<>>)
                        => \A k \in 1..Len(text) : text[k].interface # cfg[i].Name

\* of two bridges only the second has a pool, with no DNS server, and the
\* compiled config holds the one stanza
C23_Witness ==
    \E p \in Procs :
        /\ ConfigCompiled(p)
        /\ Len(cfg) = 2 /\ cfg[1].DHCP = <<>> /\ cfg[2].DHCP # <<>>
        /\ cfg[2].DHCP[1].DNS1 = <<>> /\ cfg[2].DHCP[1].DNS2 = <<>>
        /\ Len(dnsConf.data) = 1 /\ dnsConf.data[1].interface = cfg[2].Name

\* C24: NFTManager.Remove succeeds when the table is absent, so that Remove
\* after Remove succeeds again and leaves the table absent, and
\* DNSMasqManager.stop succeeds when the unit is not loaded or not found;
\* any other non-zero exit of nft or systemctl is returned as an error.
C24_AbsenceIsSuccess ==
    [][\A p \in Procs :
        /\ (Leaves(p, "nft_remove") /\ faults' = faults) =>
              Last(p)' = "nft_ok" /\ table' = <<>>
        /\ (Leaves(p, "nft_remove") /\ faults' # faults) =>
              Last(p)' = "nft_err" /\ table' = table
        /\ (Leaves(p, "dns") /\ ~hasDHCP(cfg) /\ faults' = faults) =>
              Last(p)' = "dns_ok" /\ ~dnsUnit'.active
        /\ (Leaves(p, "dns") /\ ~hasDHCP(cfg) /\ faults' # faults) =>
              Last(p)' = "dns_err"
        /\ \A out \in RemoveOutputs(<<>>) : AbsentDiagnostic(out) /\ RemoveErr(out) = ""
        /\ \A out \in {"not loaded", "not found"} : StopErr(out) = ""
        /\ RemoveErr("Operation not permitted") # "" /\ StopErr("Job failed") # ""]_vars

\* no ruleset was ever loaded in this run, the startup Remove has succeeded,
\* and the Remove of a later request has succeeded on the absent table
C24_Witness ==
    \E p \in Procs :
        /\ kind[p] \in WebKinds /\ Logged(p, "nft_ok")
        /\ ~hasRules(cfg)
        /\ rulesFile = NoRulesFile /\ faults = 0 /\ table = <<>>

\* C25: at process start the model loaded from the file is applied by the
\* firewall reconciler and then by the DHCP reconciler, whatever the
\* firewall reconciler returned; the process ends only when the load fails,
\* and after both applies, failed or not, it goes on to serve.
C25_StartupAppliesBoth ==
    \A p \in Procs :
        kind[p] = "startup" =>
            /\ pc[p] = "exit" => log[p] = <<"load_err">>
            /\ pc[p] \in NftPcs \cup DnsPcs \cup {"idle"} =>
                  /\ LoadConfig(disk).ok
                  /\ cfg = LoadConfig(disk).Bridges
            /\ pc[p] \in NftPcs => Steps(p) = <<"load_ok">>
            /\ pc[p] \in DnsPcs => Steps(p) = <<"load_ok", "nat">>
            /\ pc[p] = "idle" =>
                  /\ Steps(p) = <<"load_ok", "nat", "dhcp">>
                  /\ ENABLED StartServing(p)

\* the firewall reconciler has failed at startup, the DHCP reconciler has
\* run all the same, and the process is about to serve
C25_Witness ==
    \E p \in Procs :
        /\ kind[p] = "startup" /\ pc[p] = "idle"
        /\ log[p] = <<"load_ok", "nft_err", "dns_ok">>

\* C26: in a mutation that has changed the model, a failure of the firewall
\* reconciler does not keep the DHCP reconciler from being invoked: once the
\* request is through with its applies, the DHCP reconciler has run and
\* reported after the failed firewall reconciler, on the console as well.
C26_DhcpRunsAfterFirewallFailure ==
    \A p \in Procs :
        (pc[p] = "unlock" /\ Logged(p, "mutate") /\ Logged(p, "nft_err")) =>
            (Logged(p, "dns_ok") \/ Logged(p, "dns_err"))

\* the same for the console alone
TuiDhcpRunsAfterFirewallFailure ==
    \A p \in Procs :
        (pc[p] = "unlock" /\ kind[p] \in TuiKinds /\ Logged(p, "nft_err")) =>
            (Logged(p, "dns_ok") \/ Logged(p, "dns_err"))

\* the same for the web's bridge handlers alone
BridgeDhcpRunsAfterFirewallFailure ==
    \A p \in Procs :
        (pc[p] = "unlock" /\ kind[p] \in BridgeKinds /\ Logged(p, "nft_err")) =>
            (Logged(p, "dns_ok") \/ Logged(p, "dns_err"))

\* C27: a read-only handler reads the bridge list only while no mutation
\* holds the lock, so what it shows is never a model that is changed in
\* memory but not yet persisted and reconciled.
C27_ReadsShutOut ==
    [][\A p \in Procs :
        (pc[p] = "idle" /\ pc'[p] = "render") =>
            /\ mu = "free"
            /\ \A q \in Procs : pc[q] \notin SavePcs \cup NftPcs \cup DnsPcs]_vars

\* two read-only handlers at work side by side
ReadsOverlap == \A p \in RaceWorkers : pc[p] = "render"

\* the request of p is inside a reconciler call
Reconciling(p) == kind[p] \in WebKinds \cup TuiKinds /\ pc[p] \in NftPcs \cup DnsPcs

\* C28: in every mutation path the model is persisted before a reconciler is
\* invoked: whenever a request is inside a reconciler call, however long the
\* call lasts, its Save has succeeded and the file holds the model that is
\* in memory, the mutation included.
C28_PersistedBeforeReconcile ==
    \A p \in Procs :
        Reconciling(p) =>
            /\ Logged(p, "mutate") /\ Logged(p, "save_ok")
            /\ disk = FileOf(Marshal(cfg))

\* the same for the requests whose Save succeeded
SavedThenConsistent ==
    \A p \in Procs :
        (Reconciling(p) /\ Logged(p, "save_ok")) =>
            /\ Logged(p, "mutate")
            /\ disk = FileOf(Marshal(cfg))

\* C29: with a NAT-enabled bridge in the model NFTManager.Apply enables IP
\* forwarding transiently and persistently: each write that can succeed is
\* made, whatever became of the other, and the failure of either leaves
\* Apply going on to the ruleset; with no NAT-enabled bridge neither write
\* is made.
C29_ForwardingBothWrites ==
    /\ [](\A p \in Procs :
            (pc[p] = "nft" /\ hasNAT(cfg)) =>
                \A procOK \in BOOLEAN, sysctlOK \in BOOLEAN :
                    LET r == enableIPForward(ipForward, procOK, sysctlOK) IN
                    /\ procOK => r.proc
                    /\ sysctlOK => r.sysctl)
    /\ [][\A p \in Procs :
            Leaves(p, "nft") =>
                /\ pc'[p] \in {"nft_write", "nft_remove"}
                /\ log' = log
                /\ ~hasNAT(cfg) => ipForward' = ipForward]_vars

\* the part of it that leaves the order of the two writes aside
ForwardingFailuresNotFatal ==
    [][\A p \in Procs :
            Leaves(p, "nft") =>
                /\ pc'[p] \in {"nft_write", "nft_remove"}
                /\ log' = log
                /\ ~hasNAT(cfg) => ipForward' = ipForward
                /\ (hasNAT(cfg) /\ faults' = faults) =>
                      ipForward' = [proc |-> TRUE, sysctl |-> TRUE]]_vars

\* the step in which p calls NFTManager.Status
StatusStep(p) == pc[p] = "idle" /\ pc'[p] = "render" /\ kind'[p] = "status"

\* C30: NFTManager.Status changes neither the model, the persisted file, the
\* ruleset file nor the live table; it returns "(no rules loaded)" without
\* an error when the table is absent and the live listing when it is there.
C30_StatusReadsOnly ==
    [][\A p \in Procs :
        StatusStep(p) =>
            /\ UNCHANGED <<cfg, mu, disk, diskTmp, rulesFile, rulesTmp, dnsConf>>
            /\ UNCHANGED <<table, ipForward, dnsUnit>>
            /\ (table = <<>> /\ faults' = faults) =>
                  arg'[p][1] = [rules |-> "(no rules loaded)", err |-> ""]
            /\ (table # <<>> /\ faults' = faults) =>
                  arg'[p][1].err = "" /\ arg'[p][1].rules = table
            /\ (faults' # faults) => arg'[p][1].err # ""]_vars

\* the status of a loaded table has been asked for and is its listing
C30_Witness ==
    \E p \in Procs :
        /\ kind[p] = "status" /\ pc[p] = "render"
        /\ arg[p][1].err = ""
        /\ table # <<>> /\ table[1].postrouting # <<>>
        /\ arg[p][1].rules # "(no rules loaded)"
        /\ arg[p][1].rules = table

\* the number of words among the first n tokens of a line
RECURSIVE WordsUpTo(_, _)
WordsUpTo(line, n) ==
    IF n = 0 THEN 0
    ELSE WordsUpTo(line, n - 1) + (IF line[n] \in {" ", "\t"} THEN 0 ELSE 1)

\* the k-th word of a line
Word(line, k) ==
    line[CHOOSE n \in 1..Len(line) :
            line[n] \notin {" ", "\t"} /\ WordsUpTo(line, n) = k]

\* the lines of a file that have four fields or more, by their numbers
FullLines(lines) ==
    SelectSeq([n \in 1..Len(lines) |-> n],
              LAMBDA n : WordsUpTo(lines[n], Len(lines[n])) >= 4)

\* C31: the lease reader returns one lease for each line of the lease file
\* that has four fields or more, in the file's order, made of the line's
\* first four fields; shorter lines are skipped; a missing file gives no
\* lease and no error.
C31_LeasePerFullLine ==
    \A p \in Procs :
        (kind[p] = "leases" /\ pc[p] = "return") =>
            LET file == arg[p][1]
                got == log[p][1]
                full == FullLines(file.lines)
            IN /\ ~file.exists => got = [leases |-> <<>>, err |-> ""]
               /\ (file.exists /\ file.readable) =>
                     /\ got.err = ""
                     /\ Len(got.leases) = Len(full)
                     /\ \A k \in 1..Len(full) :
                           LET line == file.lines[full[k]] IN
                           /\ got.leases[k].Timestamp = Word(line, 1)
                           /\ got.leases[k].MAC = Word(line, 2)
                           /\ got.leases[k].IP = Word(line, 3)
                           /\ got.leases[k].Hostname = Word(line, 4)

\* a file of a three-field line between two longer ones has given two leases
C31_Witness ==
    \E p \in Procs :
        /\ kind[p] = "leases" /\ pc[p] = "return"
        /\ Len(arg[p][1].lines) = 3
        /\ Len(Fields(arg[p][1].lines[2])) = 3
        /\ Len(log[p][1].leases) = 2
        /\ log[p][1].leases[2].Hostname = "*"

\* the view has been built by p; it is log[p][1]
Built(p) == kind[p] = "used" /\ pc[p] = "return"

\* the entry of the view for the bridge named n
ViewOf(view, n) == view[CHOOSE k \in 1..Len(view) : view[k].Bridge = n]

\* the addresses a list gives with that source
WithSource(ips, source) == {ips[k].IP : k \in {j \in 1..Len(ips) : ips[j].Source = source}}

\* C32: in the IP-usage view the "forward" entries of a bridge are exactly
\* the internal addresses of its enabled forwards; a disabled forward gives
\* no entry.
C32_ForwardEntriesEnabledOnly ==
    \A p \in Procs :
        Built(p) =>
            \A i \in 1..Len(cfg) :
                WithSource(ViewOf(log[p][1], cfg[i].Name).IPs, "forward")
                    = {cfg[i].Forwards[j].IntIP :
                          j \in {k \in 1..Len(cfg[i].Forwards) : cfg[i].Forwards[k].Enabled}}

\* no (source, address) pair comes twice in a list
NoPairTwice(ips) == \A j, k \in 1..Len(ips) : ips[j] = ips[k] => j = k

\* a list is in the order of its addresses
AddressOrder(ips) == \A k \in 1..(Len(ips) - 1) : U32LE(ips[k].IP, ips[k + 1].IP)

\* a list is in the order of its address texts, read as strings
TextOrder(ips) ==
    \A k \in 1..(Len(ips) - 1) : ~BytesLess(Bytes(ips[k + 1].IP), Bytes(ips[k].IP))

\* the lease and NIC addresses of a list lie in the subnet
LeasesInside(ips, subnet) ==
    \A k \in 1..Len(ips) :
        ips[k].Source \in {"dhcp", "vm"} => Within(ips[k].IP, subnet)

\* C33: in the IP-usage view each bridge's list has no (source, address)
\* pair twice and is sorted by address, a lease or NIC address is listed
\* under a bridge only when it lies in that bridge's subnet, and the model is
\* as it was before the view was built.
C33_ViewDedupedSortedInside ==
    \A p \in Procs :
        Built(p) =>
            /\ disk = FileOf(Marshal(cfg))
            /\ \A k \in 1..Len(log[p][1]) :
                  LET e == log[p][1][k] IN
                  /\ NoPairTwice(e.IPs)
                  /\ AddressOrder(e.IPs)
                  /\ LeasesInside(e.IPs, e.Subnet)

\* the same with the lists in the order of the address texts
ViewDedupedTextSortedInside ==
    \A p \in Procs :
        Built(p) =>
            /\ disk = FileOf(Marshal(cfg))
            /\ Len(log[p][1]) = Len(cfg)
            /\ \A k \in 1..Len(log[p][1]) :
                  LET e == log[p][1][k] IN
                  /\ NoPairTwice(e.IPs)
                  /\ TextOrder(e.IPs)
                  /\ LeasesInside(e.IPs, e.Subnet)

\* the handlers that SetupRoutes places behind requireAuth
Protected == {"HandleDashboard", "HandleLogout", "HandleNATToggle",
              "HandleAPIVMs", "NotFound"}

\* the token was returned by Create, was not passed to Delete, and its
\* expiry time has not passed
Alive(token) ==
    /\ token \notin store.deleted
    /\ \E s \in store.issued : s.token = token /\ store.now <= s.ExpiresAt

\* C34: a handler other than those of /login and /static/ runs only in a
\* request that requireAuth let through, and requireAuth lets a request
\* through only when it carries a cookie whose token, at that check, was
\* issued by Create, not deleted by a logout and not expired
C34_HandlersBehindValidation ==
    /\ [](\A p \in RaceWorkers :
            (\E h \in Protected : Logged(p, h)) => Logged(p, "next"))
    /\ [][\A p \in RaceWorkers :
            (pc'[p] = "next" /\ pc[p] # "next")
                => /\ pc[p] = "auth"
                   /\ arg[p][1].cookie # <<>>
                   /\ Alive(arg[p][1].cookie[1])]_vars

\* a mutation handler has run for a validated request while another request,
\* carrying a token that a logout deleted, was turned away
C34_Witness ==
    \E p, q \in RaceWorkers :
        /\ p # q
        /\ Logged(p, "next") /\ Logged(p, "HandleNATToggle")
        /\ pc[q] = "respond" /\ Logged(q, "redirect")
        /\ arg[q][1].cookie # <<>>
        /\ arg[q][1].cookie[1] \in store.deleted
        /\ arg[q][1].path = "/api/vms"

\* C37: Validate succeeds for a token exactly when Create returned it, Delete
\* was not called with it and its expiry time has not passed; and once it
\* fails for a token that Create returned, it fails for that token ever after
C37_SessionLifecycle ==
    /\ [](\A t \in Tokens : Validate(store, t).ok <=> Alive(t))
    /\ [][\A t \in Tokens :
            ((\E s \in store.issued : s.token = t) /\ ~Validate(store, t).ok)
                => ~Validate(store', t).ok]_vars

\* requireAuth has turned away an expired token whose session the store
\* held until then, and another token that a logout deleted
C37_Witness ==
    \E p \in RaceWorkers, s \in store.issued :
        /\ pc[p] = "respond" /\ Logged(p, "redirect")
        /\ arg[p][1].cookie = <<s.token>>
        /\ store.now > s.ExpiresAt
        /\ s.token \notin store.deleted
        /\ \E d \in store.deleted : d # s.token /\ d # 0

\* DeleteForward and then FindForward have returned in the request of p:
\* log[p] is <<the verdict of the delete, the place the lookup found>>
Deleted(p) == kind[p] = "delete" /\ pc[p] = "return"

\* the model is the earlier one without the forward at place <<i, j>>
Without(before, i, j) == [before EXCEPT ![i].Forwards = RemoveAt(@, j)]

\* the frame of DeleteForward(id): a missing ID gives false and no change,
\* a present one gives true and removes one forward with that ID
DeleteFrame(p) ==
    LET id == arg[p][1].id
        before == arg[p][1].before
    IN IF ForwardPlaces(before, id) = {}
       THEN log[p][1] = FALSE /\ cfg = before
       ELSE /\ log[p][1] = TRUE
            /\ \E pl \in ForwardPlaces(before, id) : cfg = Without(before, pl[1], pl[2])

\* C35: deleteForward(id) removes the forward with that identifier and
\* returns true, every other forward and every other bridge staying as it
\* was, or returns false and changes nothing when no forward has the
\* identifier; after a successful deleteForward(id), findForward(id) reports
\* not found.
C35_DeleteForwardFrame ==
    \A p \in Procs :
        Deleted(p) =>
            /\ DeleteFrame(p)
            /\ log[p][1] = TRUE => log[p][2] = <<0, 0>>

\* the frame alone: it holds whatever the IDs are
DeleteFrameHolds == \A p \in Procs : Deleted(p) => DeleteFrame(p)

\* the lookup after a successful delete, on models whose IDs are all distinct
DeleteThenNotFoundIfDistinct ==
    \A p \in Procs :
        (/\ Deleted(p)
         /\ log[p][1] = TRUE
         /\ \A id \in 1..3 : Cardinality(ForwardPlaces(arg[p][1].before, id)) <= 1)
            => log[p][2] = <<0, 0>>

\* C36: a handler that has taken the model lock releases it on every path,
\* whatever the checks, Save and the reconcilers answer, and none takes it
\* while holding it: the lock is taken only when free and given back only by
\* its holder, a request that holds it always reaches the release, and a
\* request that has returned holds nothing.
C36_LockReleased ==
    /\ [][\A p \in RaceWorkers :
            /\ (mu # p /\ mu' = p) => mu = "free"
            /\ (mu = p /\ mu' # p) => mu' = "free" /\ pc[p] # pc'[p]]_vars
    /\ [](\A p \in RaceWorkers : pc[p] \in {"idle", "return"} => mu # p)
    /\ \A p \in RaceWorkers : (mu = p) ~> (mu = "free")

\* a request holds the lock after its Save failed, another waits for it
C36_Witness ==
    \E p, q \in RaceWorkers :
        /\ mu = p /\ Logged(p, "save_err")
        /\ pc[q] = "create_lock"

\* the checks of a range that do not look at the gateway all pass
RangeAlone(a) ==
    /\ Len(a.subnet.ip) = 4 /\ a.subnet.ones \in 0..32
    /\ Len(a.start) = 4 /\ Len(a.end) = 4
    /\ Within(a.start, a.subnet) /\ Within(a.end, a.subnet)
    /\ U32LE(a.start, a.end)

\* C38: validateDHCPRange accepts a range with a gateway text that is not an
\* IPv4 address whenever the checks of subnet, start and end pass, rejects
\* for the gateway only when it parses and lies between start and end, and
\* never asks that the gateway lie inside the subnet.
C38_GatewayCheckedOnlyIfParsed ==
    \A p \in Procs :
        (kind[p] = "range" /\ pc[p] = "return") =>
            LET a == arg[p][1] IN
            /\ (Len(a.gateway) # 4 /\ RangeAlone(a)) => log[p] = <<"">>
            /\ (Len(a.gateway) = 4 /\ RangeAlone(a)) =>
                  log[p] = <<IF U32LE(a.start, a.gateway) /\ U32LE(a.gateway, a.end)
                             THEN "RangeIncludesGateway" ELSE "">>
            /\ ~RangeAlone(a) => log[p] \notin {<<"">>, <<"RangeIncludesGateway">>}

\* a range was accepted with an empty gateway text
C38_Witness ==
    \E p \in Procs :
        /\ kind[p] = "range" /\ pc[p] = "return" /\ log[p] = <<"">>
        /\ arg[p][1].gateway = <<>>
        /\ arg[p][1].start # arg[p][1].end

\* a range was accepted with a gateway outside the subnet
GatewayOutsideAccepted ==
    \E p \in Procs :
        /\ kind[p] = "range" /\ pc[p] = "return" /\ log[p] = <<"">>
        /\ Len(arg[p][1].gateway) = 4
        /\ ~Within(arg[p][1].gateway, arg[p][1].subnet)

\* p's call of NFTManager.Apply ends in an error at the step it takes now
ApplyFails(p) == Last(p)' = "nft_err" /\ pc'[p] \notin {"nft_rename", "nft_load"}

\* C39: NFTManager.Apply writes the ruleset to the temporary file, renames it
\* over rules.nft and only then runs the firewall tool on it; when the write
\* or the rename fails, Apply returns an error, rules.nft is as it was and
\* the live table is not touched.
C39_RulesetReplacedThenLoaded ==
    [][\A p \in Procs :
        /\ Leaves(p, "nft_write") =>
              /\ rulesFile' = rulesFile /\ table' = table
              /\ IF pc'[p] = "nft_rename"
                 THEN rulesTmp' = FileOf(generateRuleset(cfg)) /\ log' = log
                 ELSE ApplyFails(p)
        /\ Leaves(p, "nft_rename") =>
              /\ table' = table
              /\ IF pc'[p] = "nft_load"
                 THEN rulesFile' = FileOf(generateRuleset(cfg)) /\ log' = log
                 ELSE rulesFile' = rulesFile /\ ApplyFails(p)
        /\ Leaves(p, "nft_load") =>
              /\ rulesFile = FileOf(generateRuleset(cfg))
              /\ rulesFile' = rulesFile]_vars

\* Apply has failed before the tool ran while rules.nft and the live table
\* held the rules of an earlier model
C39_Witness ==
    \E p \in Procs :
        /\ Last(p) = "nft_err"
        /\ hasRules(cfg)
        /\ rulesFile.exists /\ rulesFile.complete
        /\ rulesFile.data # generateRuleset(cfg)
        /\ table # <<>> /\ table # TableOf(cfg) /\ table # StaleTable

==============================================================================
